---- MODULE Spec2Model ----
(***************************************************************************)
(* Model of the mirascrape scrapers: the canonical record (models.py),     *)
(* the spain-real-estate and Idealista builders and merges, the page       *)
(* loops of both orchestrators and the resumable enrich command (cli.py).  *)
(*                                                                         *)
(* Python values: an Optional value is None (the empty tuple) or           *)
(* Some(v) (a 1-tuple); a list is a sequence; a dict is a function whose   *)
(* DOMAIN is the set of keys present.                                      *)
(***************************************************************************)
EXTENDS Integers, Sequences, FiniteSets, TLC

\* ------------------------------------------------------------------ bounds
MaxRecords == 2      \* records in the JSONL file of the enrich command
MaxRuns == 2         \* runs of the enrich command in one behaviour
MaxPagesBound == 3   \* largest max_pages / reported page count of a listing

\* ---------------------------------------------------------- python values
None == <<>>
Some(v) == <<v>>
TruthyStr(o) == o # None /\ o[1] # ""
TruthyNum(o) == o # None /\ o[1] # 0
OrStr(a, b) == IF TruthyStr(a) THEN a ELSE b
OrNum(a, b) == IF TruthyNum(a) THEN a ELSE b
EmptyDict == [k \in {} |-> None]
Get(d, k) == IF k \in DOMAIN d THEN d[k] ELSE None
GetList(d, k) == IF k \in DOMAIN d THEN d[k] ELSE <<>>
Put(d, k, v) == [x \in (DOMAIN d) \cup {k} |-> IF x = k THEN v ELSE d[x]]
Update(d, e) == [x \in (DOMAIN d) \cup (DOMAIN e) |-> IF x \in DOMAIN e THEN e[x] ELSE d[x]]
Contains(t, w) == \E k \in 1..(Len(t) - Len(w) + 1) : SubSeq(t, k, k + Len(w) - 1) = w

\* ------------------------------------------------- models.py: the record
PropertyDefaults ==
  [id |-> "", sub_category |-> None, status |-> "available",
   description |-> None, price |-> None, location |-> None,
   region |-> "Comunidad Valenciana", province |-> None,
   municipality |-> None, neighborhood |-> None, postal_code |-> None,
   latitude |-> None, longitude |-> None, images |-> <<>>,
   specs |-> EmptyDict, features |-> <<>>, source |-> "idealista",
   source_url |-> None, enriched |-> FALSE, translations |-> <<>>]

\* mutant of set_id: the separator is left out
set_id_nosep(p) == IF p.id = "" THEN [p EXCEPT !.id = p.source \o p.source_id] ELSE p

\* Property.set_id: derive id from (source, source_id) unless an id was given
set_id(p) == IF p.id = "" THEN [p EXCEPT !.id = p.source \o "-" \o p.source_id] ELSE p

\* Property(**kwargs): defaults for the fields not supplied, then the validator
Property(kwargs) == set_id(kwargs @@ PropertyDefaults)

Translation(property_id, locale, title, description, features) ==
  [property_id |-> property_id, locale |-> locale, title |-> title,
   description |-> description, features |-> features]

\* model_dump_json / model_validate_json: a line carries every field; loading
\* it constructs the record again (defaults, then set_id)
model_dump_json(p) == [json |-> p]
model_validate_json(line) == Property(line.json)

\* ------------------------------------------------------ text micro-parsers
UpperLetters == "ABCDEFGHIJKLMNOPQRSTUVWXYZ"
LowerLetters == "abcdefghijklmnopqrstuvwxyz"
LowerChar(c) ==
  IF \E k \in 1..26 : SubSeq(UpperLetters, k, k) = c
  THEN LET k == CHOOSE k \in 1..26 : SubSeq(UpperLetters, k, k) = c
       IN SubSeq(LowerLetters, k, k)
  ELSE c
RECURSIVE Lower(_)
Lower(s) == IF Len(s) = 0 THEN "" ELSE LowerChar(SubSeq(s, 1, 1)) \o Lower(SubSeq(s, 2, Len(s)))

Digits == "0123456789"
IsDigit(c) == \E k \in 1..10 : SubSeq(Digits, k, k) = c
DigitVal(c) == (CHOOSE k \in 1..10 : SubSeq(Digits, k, k) = c) - 1
AllDigits(s) == Len(s) > 0 /\ \A k \in 1..Len(s) : IsDigit(SubSeq(s, k, k))
RECURSIVE ParseInt(_)
ParseInt(s) == IF Len(s) = 0 THEN 0
               ELSE 10 * ParseInt(SubSeq(s, 1, Len(s) - 1)) + DigitVal(SubSeq(s, Len(s), Len(s)))

\* price text is a sequence of characters; the non-ASCII ones are named:
\* "EUR" is U+20AC, "NBSP" is U+00A0 (no-break space), "NNBSP" is U+202F
\* (narrow no-break space)
RECURSIVE RemoveChars(_, _)
RemoveChars(t, cs) ==
  IF t = <<>> THEN <<>>
  ELSE IF Head(t) \in cs THEN RemoveChars(Tail(t), cs)
       ELSE <<Head(t)>> \o RemoveChars(Tail(t), cs)
PeriodWords == {<<"m","o","n","t","h","l","y">>, <<"y","e","a","r","l","y">>,
                <<"w","e","e","k","l","y">>}
LowerSeq(t) == [k \in 1..Len(t) |-> LowerChar(t[k])]
StartsWithWord(t, w) == Len(t) >= Len(w) /\ LowerSeq(SubSeq(t, 1, Len(w))) = w
RECURSIVE RemovePeriodWords(_)
RemovePeriodWords(t) ==
  IF t = <<>> THEN <<>>
  ELSE IF \E w \in PeriodWords : StartsWithWord(t, w)
       THEN LET w == CHOOSE w \in PeriodWords : StartsWithWord(t, w)
            IN RemovePeriodWords(SubSeq(t, Len(w) + 1, Len(t)))
       ELSE <<Head(t)>> \o RemovePeriodWords(Tail(t))
PyWhitespace == {" ", "NBSP", "NNBSP"}
RECURSIVE LStrip(_)
LStrip(t) == IF t # <<>> /\ Head(t) \in PyWhitespace THEN LStrip(Tail(t)) ELSE t
RECURSIVE RStrip(_)
RStrip(t) == IF t # <<>> /\ t[Len(t)] \in PyWhitespace THEN RStrip(SubSeq(t, 1, Len(t) - 1)) ELSE t
RECURSIVE DigitsValue(_)
DigitsValue(t) == IF t = <<>> THEN 0 ELSE 10 * DigitsValue(SubSeq(t, 1, Len(t) - 1)) + DigitVal(t[Len(t)])
\* float(text) on signed decimal integers; None stands for ValueError
PyFloat(t) ==
  LET neg == t # <<>> /\ Head(t) = "-"
      body == IF t # <<>> /\ Head(t) \in {"-", "+"} THEN Tail(t) ELSE t
  IN IF body # <<>> /\ \A k \in 1..Len(body) : IsDigit(body[k])
     THEN Some(IF neg THEN 0 - DigitsValue(body) ELSE DigitsValue(body))
     ELSE None

\* SpainRealEstateScraper.parse_price
parse_price(text) ==
  IF text = None \/ text[1] = <<>> THEN None
  ELSE LET c1 == RemoveChars(text[1], {"EUR"})
           c2 == RemovePeriodWords(c1)
           c3 == RStrip(LStrip(RemoveChars(c2, {"NBSP", " "})))
       IN IF c3 = <<>> THEN None ELSE PyFloat(c3)

\* SpainRealEstateScraper.guess_sub_category
AnyIn(t, ws) == \E w \in ws : Contains(t, w)
guess_sub_category(title) ==
  LET t == Lower(title)
  IN IF AnyIn(t, {"apartment", "flat", "penthouse", "duplex", "studio", "townhouse"})
       THEN Some("apartment")
     ELSE IF AnyIn(t, {"villa", "house", "chalet", "bungalow", "finca"}) THEN Some("house")
     ELSE IF AnyIn(t, {"commercial", "office", "shop", "hotel", "business", "restaurant"})
       THEN Some("commerce")
     ELSE IF AnyIn(t, {"land", "plot"}) THEN Some("plot")
     ELSE None

\* the titles the model uses
T_APT == "Apartment in Valencia, Spain No. 1"
T_VILLA == "Villa in Benidorm, Alicante, Spain"
T_PLAIN == "Property for sale"
T_ES == "Apartamento en Valencia"
T_RU == "Kvartira v Valensii"
Titles == {T_APT, T_VILLA, T_PLAIN, T_ES, T_RU}

\* SpainRealEstateScraper.extract_location_from_title, on the titles of the
\* model: the regex "\bin\s+(.+?)(?:,\s*Spain|\s+No\.)" and CITY_TO_PROVINCE
extract_location_from_title(title) ==
  IF title = T_APT THEN [municipality |-> Some("Valencia"), province |-> Some("Valencia")]
  ELSE IF title = T_VILLA THEN [municipality |-> Some("Benidorm"), province |-> Some("Alicante")]
  ELSE [municipality |-> None, province |-> None]

TAB_SUB_CATEGORY ==
  [apartment |-> "apartment", villa |-> "house", commercial |-> "commerce", land |-> "plot"]
_SUBCATEGORY_TO_TAB ==
  [apartment |-> "apartment", house |-> "villa", commerce |-> "commercial", plot |-> "land"]

\* the leading run of [0-9.] of a spec value: re.match(r"[\d.]+", ...)
RECURSIVE LeadingNumber(_)
LeadingNumber(s) ==
  IF Len(s) > 0 /\ (IsDigit(SubSeq(s, 1, 1)) \/ SubSeq(s, 1, 1) = ".")
  THEN SubSeq(s, 1, 1) \o LeadingNumber(SubSeq(s, 2, Len(s)))
  ELSE ""
IntPart(s) == IF \E k \in 1..Len(s) : SubSeq(s, k, k) = "."
              THEN SubSeq(s, 1, (CHOOSE k \in 1..Len(s) : SubSeq(s, k, k) = "."
                                   /\ \A j \in 1..(k - 1) : SubSeq(s, j, j) # ".") - 1)
              ELSE s

\* SpainRealEstateScraper.normalize_specs (spec values are strings; the
\* model's values have at most one "." so float() does not raise)
normalize_specs(specs) ==
  LET area == OrStr(Get(specs, "area"), Get(specs, "size"))
      num == IF area = None THEN "" ELSE LeadingNumber(area[1])
      sized == IF area # None /\ num # "" /\ AllDigits(IntPart(num))
               THEN Put(EmptyDict, "size", Some(ParseInt(IntPart(num)))) ELSE EmptyDict
      counts == [k \in {x \in {"bedrooms", "bathrooms"} :
                          Get(specs, x) # None /\ AllDigits(Get(specs, x)[1])}
                   |-> Some(ParseInt(specs[k][1]))]
      others == [k \in (DOMAIN specs) \ {"area", "size", "bedrooms", "bathrooms"} |-> specs[k]]
  IN Update(Update(sized, counts), others)

\* float(s) on the numeric texts of the model (signed decimal integers);
\* None stands for ValueError
float_str(s) ==
  LET signed == Len(s) > 0 /\ SubSeq(s, 1, 1) \in {"-", "+"}
      body == IF signed THEN SubSeq(s, 2, Len(s)) ELSE s
  IN IF AllDigits(body)
     THEN Some(IF signed /\ SubSeq(s, 1, 1) = "-" THEN 0 - ParseInt(body) ELSE ParseInt(body))
     ELSE None

\* ------------------------------------- spain-real-estate: detail extractor
\* A detail page is modelled by what the selectors and regexes find in it:
\*   map_entry   first entry of OBJECT_MAP_DATA: None, or Some([lat, lng]) with
\*               the raw "lat"/"lng" values (None when the key is missing)
\*   meta_lat, meta_lng, meta_price   content of the schema.org meta tags
\*   gallery, main_image, features, article, params, schema, hreflang, h1

\* the coordinate keys _parse_detail_data ends up with
detail_coords(page) ==
  LET e == page.map_entry
      fromMap ==
        IF e # None /\ TruthyStr(e[1].lat) /\ TruthyStr(e[1].lng)
        THEN IF float_str(e[1].lat[1]) = None THEN EmptyDict
             ELSE IF float_str(e[1].lng[1]) = None
                  THEN Put(EmptyDict, "latitude", float_str(e[1].lat[1]))
                  ELSE Put(Put(EmptyDict, "latitude", float_str(e[1].lat[1])),
                           "longitude", float_str(e[1].lng[1]))
        ELSE EmptyDict
      fromMeta ==
        IF page.meta_lat # None /\ page.meta_lng # None
        THEN IF float_str(page.meta_lat[1]) = None THEN EmptyDict
             ELSE IF float_str(page.meta_lng[1]) = None
                  THEN Put(EmptyDict, "latitude", float_str(page.meta_lat[1]))
                  ELSE Put(Put(EmptyDict, "latitude", float_str(page.meta_lat[1])),
                           "longitude", float_str(page.meta_lng[1]))
        ELSE EmptyDict
  IN IF "latitude" \in DOMAIN fromMap THEN fromMap ELSE Update(fromMap, fromMeta)

RECURSIVE DedupTruthy(_, _)
DedupTruthy(urls, acc) ==
  IF urls = <<>> THEN acc
  ELSE DedupTruthy(Tail(urls),
         IF Head(urls) # "" /\ \A k \in 1..Len(acc) : acc[k] # Head(urls)
         THEN Append(acc, Head(urls)) ELSE acc)
NonEmptyTexts(xs) == SelectSeq(xs, LAMBDA x : x # "")

\* SpainRealEstateScraper._parse_detail_data
_parse_detail_data(page) ==
  LET coords == detail_coords(page)
      price == IF page.meta_price # None /\ float_str(page.meta_price[1]) # None
               THEN Put(EmptyDict, "detail_price", float_str(page.meta_price[1])) ELSE EmptyDict
      gal == DedupTruthy(page.gallery, <<>>)
      imgs == IF gal # <<>> THEN gal
              ELSE IF TruthyStr(page.main_image) THEN <<page.main_image[1]>> ELSE <<>>
      images == IF imgs # <<>> THEN [images |-> imgs] ELSE EmptyDict
      feats == NonEmptyTexts(page.features)
      features == IF feats # <<>> THEN [features |-> feats] ELSE EmptyDict
      description == IF TruthyStr(page.article) THEN [description |-> page.article] ELSE EmptyDict
      side == [k \in {x \in DOMAIN page.params : x # "" /\ TruthyStr(page.params[x])}
                 |-> page.params[k]]
      extra == [k \in {x \in DOMAIN page.schema : x \notin DOMAIN side /\ TruthyStr(page.schema[x])}
                  |-> page.schema[k]]
      sp == Update(side, extra)
      specs == IF DOMAIN sp # {} THEN [specs |-> sp] ELSE EmptyDict
      urls == [k \in {x \in DOMAIN page.hreflang :
                        x # "" /\ x # "x-default" /\ TruthyStr(page.hreflang[x])}
                 |-> page.hreflang[k]]
      translations == IF DOMAIN urls # {} THEN [_translation_urls |-> urls] ELSE EmptyDict
  IN Update(Update(Update(Update(Update(Update(coords, price), images), features),
                          description), specs), translations)

\* SpainRealEstateScraper._parse_translation
_parse_translation(page) ==
  LET title == IF page.h1 # None THEN [title |-> page.h1] ELSE EmptyDict
      description == IF TruthyStr(page.article) THEN [description |-> page.article] ELSE EmptyDict
      feats == NonEmptyTexts(page.features)
      features == IF feats # <<>> THEN [features |-> feats] ELSE EmptyDict
  IN Update(Update(title, description), features)

\* ------------------------------------------ spain-real-estate: the builder
GetDict(d, k) == IF k \in DOMAIN d THEN d[k] ELSE EmptyDict

\* the Translation built from one entry of item["_translations"]
build_translation(property_id, tr) ==
  Translation(property_id, tr.locale[1], Get(tr, "title"), Get(tr, "description"),
              IF "features" \in DOMAIN tr THEN Some(tr.features) ELSE None)

\* images of build_property: thumbnail, superseded by the detail images
build_images(item) ==
  IF GetList(item, "images") # <<>> THEN item.images
  ELSE IF TruthyStr(Get(item, "thumbnail")) THEN <<item.thumbnail[1]>> ELSE <<>>

\* specs of build_property: list-page counts overlaid by the detail specs
build_specs(item) ==
  LET raw == [k \in {x \in {"rooms", "bedrooms", "bathrooms", "area"} : x \in DOMAIN item}
                |-> item[k]]
  IN normalize_specs(Update(raw, GetDict(item, "specs")))

\* mutant of build_sub_category: the title keywords are consulted first
build_sub_category_guess_first(tab, en_title) ==
  IF guess_sub_category(en_title) # None THEN guess_sub_category(en_title)
  ELSE IF tab \in DOMAIN TAB_SUB_CATEGORY THEN Some(TAB_SUB_CATEGORY[tab])
  ELSE None

\* build_property, "Sub-category: from tab first, then from EN title"
build_sub_category(tab, en_title) ==
  IF tab \in DOMAIN TAB_SUB_CATEGORY THEN Some(TAB_SUB_CATEGORY[tab])
  ELSE guess_sub_category(en_title)

\* mutant of build_listing_type: the rental marker is ignored
build_listing_type_keeps(item, listing_type) == listing_type

\* build_property, "If rental detected from price, override listing_type"
build_listing_type(item, listing_type) ==
  IF Get(item, "is_rental") = Some(TRUE) THEN "rent" ELSE listing_type

\* SpainRealEstateScraper.build_property
build_property(item, listing_type, tab) ==
  LET source_id == IF "source_id" \in DOMAIN item THEN item.source_id[1] ELSE ""
      en_title == IF "title" \in DOMAIN item THEN item.title[1]
                  ELSE "Listing " \o (IF "source_id" \in DOMAIN item THEN item.source_id[1]
                                      ELSE "unknown")
      price == OrNum(Get(item, "detail_price"), parse_price(Get(item, "price_text")))
      sub_cat == build_sub_category(tab, en_title)
      loc == extract_location_from_title(en_title)
      es_data == GetDict(item, "_es")
      title == OrStr(Get(es_data, "title"), Some(en_title))[1]
      description == OrStr(Get(es_data, "description"),
                           OrStr(Get(item, "description"), Get(item, "excerpt")))
      actual_listing_type == build_listing_type(item, listing_type)
      property_id == "spain-real-estate-" \o source_id
      trs == GetList(item, "_translations")
  IN Property(
       [listing_type |-> actual_listing_type, sub_category |-> sub_cat, title |-> title,
        description |-> description, price |-> price,
        location |-> loc.municipality, municipality |-> loc.municipality,
        province |-> loc.province,
        latitude |-> Get(item, "latitude"), longitude |-> Get(item, "longitude"),
        images |-> build_images(item), specs |-> build_specs(item),
        features |-> GetList(item, "features"),
        source |-> "spain-real-estate", source_id |-> source_id,
        source_url |-> Get(item, "source_url"),
        translations |-> [k \in 1..Len(trs) |-> build_translation(property_id, trs[k])]])

\* ------------------------------------- spain-real-estate: enrichment steps
\* The outcome of one _fetch_page call: the page, or FetchError.
FetchOk(page) == [ok |-> TRUE, page |-> page]
FetchFailed == [ok |-> FALSE]
\* a fetch that ends with an exception other than FetchError: an
\* httpx.TransportError of client.get, a timeout of page.goto
FetchBroke == [ok |-> FALSE, exc |-> "TransportError"]
IsFetchError(resp) == ~resp.ok /\ "exc" \notin DOMAIN resp

Tr(locale, parsed) == Update([locale |-> Some(locale)], parsed)
HasText(parsed) == TruthyStr(Get(parsed, "title")) \/ TruthyStr(Get(parsed, "description"))

\* item.setdefault("_translations", []).append({"locale": ..., **tr}) when the
\* translation has a title or a description
enrich_add_tr(item, locale, tr) ==
  IF HasText(tr)
  THEN Put(item, "_translations", Append(GetList(item, "_translations"), Tr(locale, tr)))
  ELSE item

\* mutant of enrich_add_es: the ES page is appended like a translation
enrich_add_es_appends(item, tr) == enrich_add_tr(item, "es", tr)

\* item["_es"] = es_tr when the translation has a title or a description
enrich_add_es(item, tr) == IF HasText(tr) THEN Put(item, "_es", tr) ELSE item

\* what the fetch of one translation page gives: nothing without a URL or on
\* FetchError
fetch_translation(url, resp) ==
  IF TruthyStr(url) /\ resp.ok THEN _parse_translation(resp.page) ELSE EmptyDict

\* the ES and RU steps of _enrich_item
enrich_translations(item, tr_urls, net) ==
  [raised |-> FALSE,
   item |-> enrich_add_tr(
              enrich_add_es(item, fetch_translation(Get(tr_urls, "es"), net.es)),
              "ru", fetch_translation(Get(tr_urls, "ru"), net.ru)),
   trace |-> <<"fetch_detail">>
               \o (IF TruthyStr(Get(tr_urls, "es")) THEN <<"delay", "fetch_es">> ELSE <<>>)
               \o (IF TruthyStr(Get(tr_urls, "ru")) THEN <<"delay", "fetch_ru">> ELSE <<>>)]

\* SpainRealEstateScraper._enrich_item: net gives the outcome of the detail,
\* ES and RU fetches.  raised = FetchError of the detail fetch; trace lists the
\* fetches and politeness delays in order.
_enrich_item(item, net) ==
  IF ~net.detail.ok
  THEN [raised |-> TRUE, item |-> item, trace |-> <<"fetch_detail">>]
  ELSE enrich_translations(
         enrich_add_tr(Update(item, _parse_detail_data(net.detail.page)), "en",
                       _parse_translation(net.detail.page)),
         GetDict(_parse_detail_data(net.detail.page), "_translation_urls"), net)

\* the English title enrich_property passes on
enrich_en_title(prop) ==
  LET en == SelectSeq(prop.translations, LAMBDA t : t.locale = "en" /\ TruthyStr(t.title))
  IN IF en # <<>> THEN en[1].title[1] ELSE prop.title

\* mutant of enrich_property: the record is marked before the fetch, in place
enrich_property_marks_first(prop, net) ==
  IF ~TruthyStr(prop.source_url)
  THEN [result |-> prop, same |-> TRUE, trace |-> <<>>]
  ELSE [result |-> [prop EXCEPT !.enriched = TRUE], same |-> TRUE,
        trace |-> <<"delay", "fetch_detail">>]

\* mutant of enrich_property: a failed detail fetch still builds a new record
enrich_property_ignores_error(prop, net) ==
  LET item == [source_id |-> Some(prop.source_id), title |-> Some(enrich_en_title(prop)),
               source_url |-> prop.source_url, detail_price |-> prop.price,
               is_rental |-> Some(prop.listing_type = "rent")]
  IN [result |-> [build_property(item, prop.listing_type, "apartment")
                    EXCEPT !.enriched = net.detail.ok],
      same |-> FALSE, trace |-> <<"delay", "fetch_detail">>]

\* SpainRealEstateScraper.enrich_property: result is the record returned, same
\* tells whether it is the input object itself
enrich_property(prop, net) ==
  IF ~TruthyStr(prop.source_url)
  THEN [result |-> prop, same |-> TRUE, trace |-> <<>>]
  ELSE
    LET item == [source_id |-> Some(prop.source_id), title |-> Some(enrich_en_title(prop)),
                 source_url |-> prop.source_url, detail_price |-> prop.price,
                 is_rental |-> Some(prop.listing_type = "rent")]
        r == _enrich_item(item, net)
        sub == IF prop.sub_category = None THEN "" ELSE prop.sub_category[1]
        tab == IF sub \in DOMAIN _SUBCATEGORY_TO_TAB THEN _SUBCATEGORY_TO_TAB[sub] ELSE "apartment"
    IN IF r.raised
       THEN [result |-> prop, same |-> TRUE, trace |-> <<"delay">> \o r.trace]
       ELSE [result |-> [build_property(r.item, prop.listing_type, tab) EXCEPT !.enriched = TRUE],
             same |-> FALSE, trace |-> <<"delay">> \o r.trace]

\* ------------------------------------------------ the pages of the model
RichPage ==
  [map_entry |-> Some([lat |-> Some("39"), lng |-> Some("-1")]),
   meta_lat |-> None, meta_lng |-> None, meta_price |-> Some("370000"),
   gallery |-> <<"g1", "g2", "g1">>, main_image |-> Some("m1"),
   features |-> <<"Pool", "", "Lift">>, article |-> Some("Great apartment."),
   params |-> [City |-> Some("Valencia"), area |-> Some("85 m2")],
   schema |-> [bedrooms |-> Some("3")],
   hreflang |-> [es |-> Some("u-es"), ru |-> Some("u-ru"), en |-> Some("u-en")],
   h1 |-> Some(T_APT)]
BarePage ==
  [map_entry |-> None, meta_lat |-> None, meta_lng |-> None, meta_price |-> None,
   gallery |-> <<>>, main_image |-> None, features |-> <<>>, article |-> None,
   params |-> EmptyDict, schema |-> EmptyDict, hreflang |-> EmptyDict,
   h1 |-> Some(T_VILLA)]
DetailPages == {RichPage, BarePage}
TrPage(title, text) ==
  [RichPage EXCEPT !.h1 = Some(title), !.article = text, !.features = <<>>]
EsPage == TrPage(T_ES, Some("Gran apartamento."))
RuPage == TrPage(T_RU, None)
Nets ==
  [detail : {FetchFailed} \cup {FetchOk(pg) : pg \in DetailPages},
   es : {FetchFailed, FetchOk(EsPage)},
   ru : {FetchFailed, FetchOk(RuPage)}]

\* list-page items as parse_list_page returns them
EUR370000 == <<"EUR", " ", "3", "7", "0", " ", "0", "0", "0">>
EUR1500Monthly == <<"EUR", " ", "1", " ", "5", "0", "0", " ", "m", "o", "n", "t", "h", "l", "y">>
ItemFull ==
  [source_id |-> Some("1"), title |-> Some(T_APT), source_url |-> Some("u1"),
   price_text |-> Some(EUR370000), rooms |-> Some("3"), bedrooms |-> Some("2"),
   area |-> Some("80 m2"), excerpt |-> Some("Nice flat"), thumbnail |-> Some("t1")]
ItemNoLink == [source_id |-> Some("2"), thumbnail |-> Some("t2")]
ItemRental ==
  [source_id |-> Some("3"), title |-> Some(T_PLAIN), source_url |-> Some("u3"),
   price_text |-> Some(EUR1500Monthly), is_rental |-> Some(TRUE)]
ListItems == {ItemFull, ItemNoLink, ItemRental}
Tabs == {"apartment", "villa", "commercial", "land"}

AllOk(pg) == [detail |-> FetchOk(pg), es |-> FetchOk(EsPage), ru |-> FetchOk(RuPage)]
\* the records of the input file: records a scrape without enrichment writes,
\* and records an earlier enrich run has already replaced
EnrichedRecords == {enrich_property(build_property(ItemFull, "sale", "apartment"),
                                    AllOk(RichPage)).result}
\* a record of the other source, as a file joined from several scrapes holds
ForeignRecord ==
  Property([listing_type |-> "sale", title |-> "Piso en calle Colon",
            source |-> "idealista", source_id |-> "101",
            source_url |-> Some("https://www.idealista.com/inmueble/101/")])
FileRecords == {build_property(ItemFull, "sale", "apartment"),
                build_property(ItemNoLink, "sale", "villa"), ForeignRecord} \cup EnrichedRecords
\* what the site answers while the enrich command runs: every fetch fails,
\* every fetch succeeds, or only the detail page can be fetched
CommandNets == {[detail |-> FetchFailed, es |-> FetchFailed, ru |-> FetchFailed],
                AllOk(RichPage),
                [detail |-> FetchOk(RichPage), es |-> FetchFailed, ru |-> FetchFailed]}

\* ----------------------------------------------- cli.py: files and saving
LastIndexOf(s, c) ==
  IF \E k \in 1..Len(s) : SubSeq(s, k, k) = c
  THEN CHOOSE k \in 1..Len(s) : SubSeq(s, k, k) = c /\ \A j \in (k + 1)..Len(s) : SubSeq(s, j, j) # c
  ELSE 0

\* mutant of with_suffix: the temporary path is the target path itself
with_suffix_same(path, suffix) == path

\* pathlib's Path.with_suffix: the last suffix of the file name is replaced
with_suffix(path, suffix) ==
  IF LastIndexOf(path, ".") > LastIndexOf(path, "/") + 1
  THEN SubSeq(path, 1, LastIndexOf(path, ".") - 1) \o suffix
  ELSE path \o suffix

InputFile == "data/props.jsonl"
tmp_path(path) == with_suffix(path, ".jsonl.tmp")
Paths == {InputFile, tmp_path(InputFile)}

\* mutant of os_replace: the rename is forgotten, the temporary file stays
os_replace_noop(fs, src, dst) == fs

\* os.replace(src, dst): atomic rename over dst
os_replace(fs, src, dst) ==
  IF src = dst THEN fs
  ELSE [q \in DOMAIN fs |-> IF q = dst THEN fs[src] ELSE IF q = src THEN None ELSE fs[q]]

\* the lines _save_jsonl writes, in order
jsonl_lines(props) == [k \in 1..Len(props) |-> model_dump_json(props[k])]
\* the records the enrich command loads from the lines of its input file
load_jsonl(lines) == [k \in 1..Len(lines) |-> model_validate_json(lines[k])]

\* mutant of enrich_skips: no record is skipped
enrich_skips_never(prop) == FALSE

\* the enrich loop skips a record that is already enriched
enrich_skips(prop) == prop.enriched

\* mutant of _get_scraper: an unknown source falls back to the default scraper
_get_scraper_defaults(source) ==
  IF source = "spain-real-estate" THEN "SpainRealEstateScraper" ELSE "IdealistaScraper"

\* _get_scraper: the scraper class of a source, "Exit" for an unknown source
_get_scraper(source) ==
  IF source = "idealista" THEN "IdealistaScraper"
  ELSE IF source = "spain-real-estate" THEN "SpainRealEstateScraper"
  ELSE "Exit"

\* hasattr(scraper_instance, "enrich_property")
has_enrich_property(scraper) == scraper = "SpainRealEstateScraper"

\* enrich(): where the command goes after the load: it is done when the file
\* has no record, it refuses (exit code 1) when the source of the first
\* record has no scraper or one without enrich_property, else it loops
enrich_after_load(loaded) ==
  IF loaded = <<>> THEN "done"
  ELSE IF has_enrich_property(_get_scraper(loaded[1].source)) THEN "loop"
  ELSE "refused"

VARIABLES
  files,       \* path -> None (absent) or Some(lines written so far)
  properties,  \* the in-memory list of the running enrich command
  pc,          \* "idle", "loop", "save_open", "save_write", "done", "refused"
  i,           \* 1-based index of the loop over properties
  w,           \* lines written to the temporary file by the current save
  n,           \* [enriched, skipped, failed, pending] counters of the run
  run,         \* number of runs of the command started so far
  calls,       \* indices enrich_property was called on in the current run
  fetched,     \* indices whose detail page was fetched in the current run
  startFile,   \* the records loaded at the start of the current run
  cut,         \* Some(k): the previous run was interrupted after k records
  last,        \* the last enrich_property call: its input and outcome
  snap,        \* the collection before and after the last processed record
  orig,        \* the lines of the input file before the first run
  sre,         \* the running spain-real-estate scrape() call
  ide,         \* the running Idealista scrape() call
  bench        \* a builder or merge under test: its input and its result

evars == <<files, properties, pc, i, w, n, run, calls, fetched, startFile, cut, last, snap, orig>>
vars == <<evars, sre, ide, bench>>
Unused == [pc |-> "unused"]

NoCounters == [enriched |-> 0, skipped |-> 0, failed |-> 0, pending |-> 0]
NoCall == [idx |-> 0, prop |-> None, out |-> None]
SeqsUpTo(S, m) == UNION {[1..k -> S] : k \in 0..m}
CountTrue(f) == Cardinality({k \in DOMAIN f : f[k]})

EnrichInit ==
  /\ \E recs \in SeqsUpTo(FileRecords, MaxRecords) :
       /\ files = [q \in Paths |-> IF q = InputFile THEN Some(jsonl_lines(recs)) ELSE None]
       /\ snap = [prev |-> jsonl_lines(recs), new |-> jsonl_lines(recs), idx |-> 0]
       /\ orig = jsonl_lines(recs)
  /\ properties = <<>> /\ pc = "idle" /\ i = 0 /\ w = 0 /\ n = NoCounters
  /\ run = 0 /\ calls = {} /\ fetched = {} /\ startFile = <<>> /\ cut = None
  /\ last = NoCall
  /\ sre = Unused /\ ide = Unused /\ bench = Unused

\* enrich(): load the file, count the pending records, enter the loop
Start ==
  /\ pc \in {"idle", "done", "refused"} /\ run < MaxRuns
  /\ files[InputFile] # None
  /\ LET loaded == load_jsonl(files[InputFile][1])
     IN /\ properties' = loaded
        /\ startFile' = loaded
        /\ pc' = enrich_after_load(loaded)
        /\ n' = [NoCounters EXCEPT !.pending = Cardinality({k \in DOMAIN loaded : ~loaded[k].enriched})]
        /\ snap' = [prev |-> jsonl_lines(loaded), new |-> jsonl_lines(loaded), idx |-> 0]
  /\ i' = 1 /\ w' = 0 /\ run' = run + 1 /\ calls' = {} /\ fetched' = {} /\ last' = NoCall
  /\ cut' = IF pc \in {"done", "refused"} THEN None ELSE cut
  /\ UNCHANGED <<files, orig>>
  /\ UNCHANGED <<sre, ide, bench>>

\* loop body, already enriched: count and continue
LoopSkip ==
  /\ pc = "loop" /\ i <= Len(properties) /\ enrich_skips(properties[i])
  /\ n' = [n EXCEPT !.skipped = @ + 1]
  /\ i' = i + 1
  /\ UNCHANGED <<files, properties, pc, w, run, calls, fetched, startFile, cut, last, snap, orig>>
  /\ UNCHANGED <<sre, ide, bench>>

\* mutant of count_result: whatever comes back counts as enriched
count_result_always_enriched(counters, result) == [counters EXCEPT !.enriched = @ + 1]

\* enrich(): if result.enriched: n_enriched += 1, else: n_failed += 1
count_result(counters, result) ==
  IF result.enriched THEN [counters EXCEPT !.enriched = @ + 1]
  ELSE [counters EXCEPT !.failed = @ + 1]

\* loop body, not enriched: call enrich_property, store and count the result
EnrichStep ==
  /\ pc = "loop" /\ i <= Len(properties) /\ ~enrich_skips(properties[i])
  /\ \E net \in CommandNets :
       LET out == enrich_property(properties[i], net)
           updated == [properties EXCEPT ![i] = out.result]
       IN /\ properties' = updated
          /\ n' = count_result(n, out.result)
          /\ calls' = calls \cup {i}
          /\ fetched' = IF \E k \in 1..Len(out.trace) : out.trace[k] = "fetch_detail"
                        THEN fetched \cup {i} ELSE fetched
          /\ last' = [idx |-> i, prop |-> Some(properties[i]),
                      out |-> Some([result |-> out.result, same |-> out.same])]
          /\ snap' = [prev |-> jsonl_lines(properties), new |-> jsonl_lines(updated), idx |-> i]
  /\ pc' = "save_open"
  /\ UNCHANGED <<files, i, w, run, startFile, cut, orig>>
  /\ UNCHANGED <<sre, ide, bench>>

\* _save_jsonl: open(tmp, "w") creates or truncates the temporary file
SaveOpen ==
  /\ pc = "save_open"
  /\ files' = [files EXCEPT ![tmp_path(InputFile)] = Some(<<>>)]
  /\ w' = 0 /\ pc' = "save_write"
  /\ UNCHANGED <<properties, i, n, run, calls, fetched, startFile, cut, last, snap, orig>>
  /\ UNCHANGED <<sre, ide, bench>>

\* _save_jsonl: one f.write per record
SaveWrite ==
  /\ pc = "save_write" /\ w < Len(properties)
  /\ files' = [files EXCEPT ![tmp_path(InputFile)] =
                 Some(Append(@[1], jsonl_lines(properties)[w + 1]))]
  /\ w' = w + 1
  /\ UNCHANGED <<properties, pc, i, n, run, calls, fetched, startFile, cut, last, snap, orig>>
  /\ UNCHANGED <<sre, ide, bench>>

\* _save_jsonl: close the temporary file and rename it over the input file;
\* the loop goes on with the next record
SaveReplace ==
  /\ pc = "save_write" /\ w = Len(properties)
  /\ files' = os_replace(files, tmp_path(InputFile), InputFile)
  /\ pc' = "loop" /\ i' = i + 1
  /\ UNCHANGED <<properties, w, n, run, calls, fetched, startFile, cut, last, snap, orig>>
  /\ UNCHANGED <<sre, ide, bench>>

\* the loop is exhausted: the scraper is closed and the summary printed
Finish ==
  /\ pc = "loop" /\ i > Len(properties)
  /\ pc' = "done"
  /\ UNCHANGED <<files, properties, i, w, n, run, calls, fetched, startFile, cut, last, snap, orig>>
  /\ UNCHANGED <<sre, ide, bench>>

\* the process is interrupted (killed, power loss, uncaught error) between
\* two steps: its memory is lost, the files stay as they are
Crash ==
  /\ pc \in {"loop", "save_open", "save_write"}
  /\ pc' = "idle" /\ properties' = <<>> /\ startFile' = <<>>
  /\ cut' = Some([k |-> i - 1,
                  failed |-> {j \in 1..(i - 1) : ~properties[j].enriched},
                  rest |-> {j \in i..Len(properties) : ~startFile[j].enriched}])
  /\ i' = 0 /\ w' = 0 /\ n' = NoCounters /\ calls' = {} /\ fetched' = {} /\ last' = NoCall
  /\ UNCHANGED <<files, run, snap, orig>>
  /\ UNCHANGED <<sre, ide, bench>>

EnrichNext == Start \/ LoopSkip \/ EnrichStep \/ SaveOpen \/ SaveWrite \/ SaveReplace
                \/ Finish \/ Crash

\* the resumable enrich command, with interruptions
Spec == EnrichInit /\ [][EnrichNext]_vars

InputLines == files[InputFile][1]
NotEnrichedAtStart == {j \in 1..Len(startFile) : ~startFile[j].enriched}

\* C1 as stated: over a file of N records, none of them enriched yet, when
\* the run that follows an interruption after k < N records completes, it has
\* called enrich_property on exactly the records k+1..N.
C1_ExactlyTheRemaining ==
  (/\ pc = "done" /\ run = 2 /\ cut # None /\ cut[1].k < Len(properties)
   /\ \A j \in 1..Len(orig) : ~orig[j].json.enriched)
    => calls = (cut[1].k + 1)..Len(properties)

\* C1 amended: a completed run has called enrich_property on exactly the
\* records that were not enriched in the file when it started (after an
\* interruption at k: the not yet enriched ones among k+1..N and the ones
\* among 1..k whose enrichment failed), and no run calls enrich_property on
\* or fetches the detail page of a record that was enriched in the file.
C1_ResumesOnNotEnriched ==
  /\ pc = "done" => calls = NotEnrichedAtStart
  /\ (pc = "done" /\ cut # None) => calls = cut[1].failed \cup cut[1].rest
  /\ pc # "idle" => (fetched \subseteq calls /\ calls \subseteq NotEnrichedAtStart)

C1_Witness ==
  /\ pc = "done" /\ run = 2 /\ cut # None /\ cut[1].k = 1 /\ Len(properties) = 2
  /\ cut[1].failed = {1} /\ calls = {1, 2} /\ fetched = {2}

\* C2: after each processed record the whole collection is in the input
\* file: at the loop head the file holds the in-memory collection, and at
\* every moment (also after an interruption) the file differs from the
\* collection as last updated in memory at most in the record processed last.
C2_LosesAtMostOne ==
  /\ files[InputFile] # None
  /\ Len(InputLines) = Len(snap.new)
  /\ \A j \in 1..Len(snap.new) : j # snap.idx => InputLines[j] = snap.new[j]
  /\ pc \in {"loop", "done"} => InputLines = jsonl_lines(properties)

C2_Witness ==
  /\ pc = "idle" /\ cut # None /\ cut[1].k = 1 /\ snap.idx = 2 /\ Len(orig) = 2
  /\ ~orig[1].json.enriched /\ InputLines[1].json.enriched
  /\ snap.new[2].json.enriched /\ InputLines[2] = orig[2] /\ ~orig[2].json.enriched

\* C3: the input file always holds a complete collection, the one before or
\* the one after the record processed last, whatever step of a save the
\* process is at or was interrupted at.
C3_AtomicSave ==
  /\ files[InputFile] # None
  /\ InputLines \in {snap.prev, snap.new}

C3_Witness ==
  /\ pc = "idle" /\ cut # None /\ snap.prev # snap.new /\ InputLines = snap.prev
  /\ files[tmp_path(InputFile)] # None
  /\ Len(files[tmp_path(InputFile)][1]) = 1 /\ Len(snap.new) = 2

\* C4: enriched never reverts, in memory or in the file, and a step of the
\* enrich loop either puts a new record with enriched = true in the slot or
\* leaves the input object, unchanged and not enriched, in it.
C4_Step ==
  /\ \A j \in 1..Len(InputLines) :
       InputLines[j].json.enriched => (j <= Len(InputLines') /\ InputLines'[j].json.enriched)
  /\ (Len(properties) > 0 /\ Len(properties') > 0) =>
       \A j \in 1..Len(properties) : properties[j].enriched => properties'[j].enriched
  /\ last' # last /\ last'.idx # 0 =>
       LET pr == last'.prop[1]
           o == last'.out[1]
       IN /\ properties'[last'.idx] = o.result
          /\ \A j \in 1..Len(properties) : j # last'.idx => properties'[j] = properties[j]
          /\ o.same => (o.result = pr /\ ~o.result.enriched)
          /\ ~o.same => o.result.enriched
C4_EnrichedMonotonic == [][C4_Step]_vars

C4_Witness ==
  /\ run = 2 /\ last.idx = 1 /\ ~last.out[1].same /\ last.out[1].result.enriched
  /\ ~orig[1].json.enriched /\ cut # None /\ cut[1].failed = {1}

\* ------------------------------------------------ constructing a Property
EnrichIdle ==
  /\ files = [q \in Paths |-> None] /\ properties = <<>> /\ pc = "unused" /\ i = 0 /\ w = 0
  /\ n = NoCounters /\ run = 0 /\ calls = {} /\ fetched = {} /\ startFile = <<>>
  /\ cut = None /\ last = NoCall /\ snap = Unused /\ orig = <<>>

Optional(field, values) == {EmptyDict} \cup {Put(EmptyDict, field, v) : v \in values}
ConstructorKwargs ==
  {Update(Update(Update(req, src), given), flag) :
     req \in [listing_type : {"sale", "rent", "new-building"}, title : {T_APT, T_PLAIN},
              source_id : {"1", "42", ""}],
     src \in Optional("source", {"idealista", "spain-real-estate"}),
     given \in Optional("id", {"", "custom-7", "idealista-1"}),
     flag \in Optional("enriched", {TRUE})}

RecordInit ==
  /\ \E kw \in ConstructorKwargs : bench = [pc |-> "kwargs", kwargs |-> kw, built |-> None]
  /\ sre = Unused /\ ide = Unused /\ EnrichIdle

\* Property(**kwargs)
Construct ==
  /\ bench.pc = "kwargs"
  /\ bench' = [bench EXCEPT !.pc = "built", !.built = Some(Property(bench.kwargs))]
  /\ UNCHANGED <<evars, sre, ide>>

\* the record is written as a JSON line and loaded again
Reload ==
  /\ bench.pc = "built"
  /\ bench' = [bench EXCEPT !.pc = "reloaded",
                            !.built = Some(model_validate_json(model_dump_json(bench.built[1])))]
  /\ UNCHANGED <<evars, sre, ide>>

RecordNext == Construct \/ Reload
SpecRecord == RecordInit /\ [][RecordNext]_vars

DerivedId(p) == p.source \o "-" \o p.source_id

\* C5 as stated: after construction id = "{source}-{source_id}", whatever
\* was supplied for the other fields.
C5_IdAlwaysDerived == bench.built # None => bench.built[1].id = DerivedId(bench.built[1])

\* C5 amended: constructed without an id, or with an empty one, the record has
\* id = "{source}-{source_id}" whatever the other fields are; a non-empty id
\* given to the constructor is kept as given.  Loading a dumped record keeps id.
C5_IdDerivedUnlessGiven ==
  bench.built # None =>
    IF "id" \in DOMAIN bench.kwargs /\ bench.kwargs.id # ""
    THEN bench.built[1].id = bench.kwargs.id
    ELSE bench.built[1].id = DerivedId(bench.built[1])

C5_Witness ==
  /\ bench.pc = "built" /\ "id" \notin DOMAIN bench.kwargs /\ "source" \in DOMAIN bench.kwargs
  /\ bench.kwargs.source = "spain-real-estate" /\ bench.kwargs.source_id = "42"
  /\ bench.built[1].id = "spain-real-estate-42" /\ "enriched" \in DOMAIN bench.kwargs

\* ---------------------------------------- enrich_property on its own
MaxEnrich == 2     \* successive enrich_property calls on one record

ItemEmptyHref == [ItemFull EXCEPT !.source_url = Some("")]
BuiltRecords ==
  {build_property(it, lt, tab) :
     it \in ListItems \cup {ItemEmptyHref}, lt \in {"sale", "rent"}, tab \in Tabs \cup {"garage"}}
\* a record as another tool may have put it in the file
HandRecord ==
  [build_property(ItemFull, "sale", "apartment")
     EXCEPT !.neighborhood = Some("Ruzafa"), !.postal_code = Some("46001")]
BaseRecords == BuiltRecords \cup {HandRecord}

EnrichPropInit ==
  /\ \E pr \in BaseRecords :
       bench = [pc |-> "record", count |-> 0, prop |-> pr, from |-> None, net |-> None,
                out |-> None]
  /\ sre = Unused /\ ide = Unused /\ EnrichIdle

\* scraper.enrich_property(prop); the caller keeps the result
EnrichCall ==
  /\ bench.pc = "record" /\ bench.count < MaxEnrich
  /\ \E net \in Nets :
       LET out == enrich_property(bench.prop, net)
       IN bench' = [pc |-> "record", count |-> bench.count + 1, prop |-> out.result,
                    from |-> Some(bench.prop), net |-> Some(net), out |-> Some(out)]
  /\ UNCHANGED <<evars, sre, ide>>

EnrichPropNext == EnrichCall
SpecEnrichProperty == EnrichPropInit /\ [][EnrichPropNext]_vars

Fetches(trace) == {k \in 1..Len(trace) : trace[k] \in {"fetch_detail", "fetch_es", "fetch_ru"}}
PageDescription(net) ==
  IF net.detail.ok /\ TruthyStr(net.detail.page.article) THEN net.detail.page.article ELSE None

\* C6: a field that is non-empty in the base record is non-empty in the
\* result of enrich_property, a missing description is filled from the detail
\* page and a non-empty neighborhood is kept.
C6_KeepsPresentFields ==
  bench.out # None =>
    LET b == bench.from[1]
        r == bench.out[1].result
    IN /\ TruthyStr(b.description) => TruthyStr(r.description)
       /\ TruthyStr(b.neighborhood) => r.neighborhood = b.neighborhood
       /\ TruthyStr(b.location) => TruthyStr(r.location)
       /\ TruthyStr(b.postal_code) => TruthyStr(r.postal_code)
       /\ b.images # <<>> => r.images # <<>>
       /\ DOMAIN b.specs # {} => DOMAIN r.specs # {}
       /\ b.features # <<>> => r.features # <<>>
       /\ (b.description = None /\ ~bench.out[1].same /\ PageDescription(bench.net[1]) # None)
            => TruthyStr(r.description)

\* C8: enrich_property returns the input object itself, unchanged, without
\* any fetch when the record has no source_url, and after the one failed fetch
\* when the detail page raises FetchError; when the detail page is fetched the
\* result is a new record with enriched = true whatever the ES and RU fetches do.
C8_ReturnsInputOnFailure ==
  bench.out # None =>
    LET b == bench.from[1]
        o == bench.out[1]
        net == bench.net[1]
    IN /\ ~TruthyStr(b.source_url) => (o.same /\ o.result = b /\ Fetches(o.trace) = {})
       /\ (TruthyStr(b.source_url) /\ ~net.detail.ok)
            => (o.same /\ o.result = b /\ Cardinality(Fetches(o.trace)) = 1)
       /\ (TruthyStr(b.source_url) /\ net.detail.ok) => (~o.same /\ o.result.enriched)

C8_Witness ==
  /\ bench.out # None /\ bench.net[1].detail.ok /\ ~bench.net[1].es.ok /\ ~bench.net[1].ru.ok
  /\ Cardinality(Fetches(bench.out[1].trace)) = 3
  /\ ~bench.from[1].enriched /\ bench.out[1].result.enriched /\ ~bench.out[1].same

\* ------------------------------------------------- Idealista: micro-parsers
\* IdealistaScraper._guess_sub_category (the accented spellings of "atico"
\* and "duplex" in the keyword list match no title of the model)
_guess_sub_category(title) ==
  LET t == Lower(title)
  IN IF AnyIn(t, {"piso", "apartamento", "atico", "estudio", "duplex"}) THEN Some("apartment")
     ELSE IF AnyIn(t, {"casa", "chalet", "villa", "adosado", "pareado", "finca"}) THEN Some("house")
     ELSE IF AnyIn(t, {"local", "oficina", "nave", "comercial"}) THEN Some("commerce")
     ELSE IF AnyIn(t, {"terreno", "parcela", "solar"}) THEN Some("plot")
     ELSE None

RECURSIVE LeadingDigits(_)
LeadingDigits(s) ==
  IF Len(s) > 0 /\ IsDigit(SubSeq(s, 1, 1))
  THEN SubSeq(s, 1, 1) \o LeadingDigits(SubSeq(s, 2, Len(s))) ELSE ""
RECURSIVE SkipSpaces(_)
SkipSpaces(s) == IF Len(s) > 0 /\ SubSeq(s, 1, 1) = " " THEN SkipSpaces(SubSeq(s, 2, Len(s))) ELSE s
StartsWith(s, pre) == Len(s) >= Len(pre) /\ SubSeq(s, 1, Len(pre)) = pre
\* re.match(r"(\d+)\s*<unit>", feat): the digits, or "" when there is no match
NumberBefore(feat, unit) ==
  LET d == LeadingDigits(feat)
  IN IF d # "" /\ StartsWith(SkipSpaces(SubSeq(feat, Len(d) + 1, Len(feat))), unit) THEN d ELSE ""
RECURSIVE Strip(_)
Strip(s) ==
  IF Len(s) > 0 /\ SubSeq(s, 1, 1) = " " THEN Strip(SubSeq(s, 2, Len(s)))
  ELSE IF Len(s) > 0 /\ SubSeq(s, Len(s), Len(s)) = " " THEN Strip(SubSeq(s, 1, Len(s) - 1))
  ELSE s

\* one feature string of _parse_feature_strings; "m2" is written for the
\* square-metre sign
parse_feature_string(specs, raw) ==
  LET feat == Strip(raw)
  IN IF feat = "" THEN specs
     ELSE IF NumberBefore(feat, "hab.") # ""
       THEN Put(specs, "habitaciones", NumberBefore(feat, "hab."))
     ELSE IF NumberBefore(feat, "m2") # ""
       THEN Put(specs, "superficie", NumberBefore(feat, "m2") \o " m2")
     ELSE IF Contains(Lower(feat), "planta") \/ Contains(Lower(feat), "bajo")
       THEN LET s1 == Put(specs, "planta", feat)
            IN IF Contains(Lower(feat), "con ascensor") THEN Put(s1, "ascensor", "true")
               ELSE IF Contains(Lower(feat), "sin ascensor") THEN Put(s1, "ascensor", "false")
               ELSE s1
     ELSE Put(specs, feat, "true")

\* IdealistaScraper._parse_feature_strings
RECURSIVE _parse_feature_strings_from(_, _)
_parse_feature_strings_from(specs, features) ==
  IF features = <<>> THEN specs
  ELSE _parse_feature_strings_from(parse_feature_string(specs, Head(features)), Tail(features))
_parse_feature_strings(features) == _parse_feature_strings_from(EmptyDict, features)

IDEALISTA_BASE_URL == "https://www.idealista.com"

\* parse_ajax_ad, "Check if this is new-building from ribbons"
ajax_listing_type(ad, listing_type) ==
  LET ribbons == GetList(ad, "ribbons")
  IN IF \E k \in 1..Len(ribbons) : Contains(Lower(ribbons[k]), "obra nueva")
     THEN "new-building" ELSE listing_type

\* IdealistaScraper.parse_ajax_ad, for an ad that has an adId
parse_ajax_ad(ad, listing_type) ==
  LET ad_id == ad.adId
      address == IF "address" \in DOMAIN ad THEN ad.address ELSE ""
      price == Get(ad, "price")
      features_raw == GetList(ad, "features")
      thumbnail == IF "thumbnail" \in DOMAIN ad THEN ad.thumbnail ELSE ""
      detail_url == IF "detailUrl" \in DOMAIN ad THEN ad.detailUrl ELSE ""
      specs == _parse_feature_strings(features_raw)
      title == IF address # "" THEN address ELSE "Listing " \o ad_id
  IN Property(
       [listing_type |-> ajax_listing_type(ad, listing_type),
        sub_category |-> _guess_sub_category(title), title |-> title,
        price |-> IF TruthyNum(price) THEN price ELSE None,
        location |-> Some(address), municipality |-> Some("Valencia"),
        province |-> Some("Valencia"),
        images |-> IF thumbnail # "" THEN <<thumbnail>> ELSE <<>>,
        specs |-> specs, features |-> features_raw,
        source |-> "idealista", source_id |-> ad_id,
        source_url |-> Some(IF detail_url # "" THEN IDEALISTA_BASE_URL \o detail_url
                            ELSE IDEALISTA_BASE_URL \o "/inmueble/" \o ad_id \o "/")])

\* -------------------------------------------- Idealista: the detail page
\* A detail page is modelled by what the extractors find in it:
\*   js_price     mortgagesConfig.initialPrice (None: no usable value)
\*   html_price   text of ".info-data-price .txt-bold"
\*   js_title     adDetail.headerTitle;  h1: text of the first h1
\*   gallery      adMultimediasInfo.fullScreenGalleryPics, [src, isPlan] each
\*   media_features, header_features   the JS feature arrays, [label] each
\*   html_items   the li texts of ".details-property_features"
\*   header_map   the li texts of "#headerMap" (None: no such element)
\*   comment      text of ".comment"
\*   map_el       None, or Some([lat, lon]): data-latitude / data-longitude
\*   js_lat, js_lon   what the "latitude": / "longitude": regexes match

IsWordChar(c) == IsDigit(c) \/ c = "_" \/ LowerChar(c) # c
                   \/ \E k \in 1..26 : SubSeq(LowerLetters, k, k) = c
PostalAt(s, k) ==
  /\ k + 4 <= Len(s) /\ AllDigits(SubSeq(s, k, k + 4))
  /\ (k = 1 \/ ~IsWordChar(SubSeq(s, k - 1, k - 1)))
  /\ (k + 4 = Len(s) \/ ~IsWordChar(SubSeq(s, k + 5, k + 5)))
\* re.search(r"\b(\d{5})\b", text)
postal_code_in(text) ==
  IF \E k \in 1..Len(text) : PostalAt(text, k)
  THEN LET k == CHOOSE k \in 1..Len(text) : PostalAt(text, k) /\ \A j \in 1..(k - 1) : ~PostalAt(text, j)
       IN Some(SubSeq(text, k, k + 4))
  ELSE None
RECURSIVE LastPostalCode(_)
LastPostalCode(texts) ==
  IF texts = <<>> THEN None
  ELSE IF postal_code_in(texts[Len(texts)]) # None THEN postal_code_in(texts[Len(texts)])
       ELSE LastPostalCode(SubSeq(texts, 1, Len(texts) - 1))
RECURSIVE Join(_)
Join(texts) == IF Len(texts) = 1 THEN texts[1] ELSE texts[1] \o ", " \o Join(Tail(texts))

\* IdealistaScraper._extract_location
_extract_location(page) ==
  LET texts == IF page.header_map = None THEN <<>> ELSE NonEmptyTexts(page.header_map[1])
      m == Len(texts)
  IN [location |-> IF m > 0 THEN Some(Join(texts)) ELSE None,
      postal_code |-> LastPostalCode(texts),
      neighborhood |-> IF m >= 3 THEN Some(texts[m - 2]) ELSE None,
      municipality |-> IF m >= 2 THEN Some(texts[m - 1]) ELSE IF m = 1 THEN Some(texts[1]) ELSE None,
      province |-> IF m >= 2 THEN Some(texts[m]) ELSE None]

IndexOf(s, c) ==
  IF \E k \in 1..Len(s) : SubSeq(s, k, k) = c
  THEN CHOOSE k \in 1..Len(s) : SubSeq(s, k, k) = c /\ \A j \in 1..(k - 1) : SubSeq(s, j, j) # c
  ELSE 0
\* one label text: "key: value" splits, anything else is a flag
label_spec(specs, raw) ==
  LET text == Strip(raw)
      c == IndexOf(text, ":")
  IN IF text = "" THEN specs
     ELSE IF c > 0 THEN Put(specs, Strip(SubSeq(text, 1, c - 1)), Strip(SubSeq(text, c + 1, Len(text))))
     ELSE Put(specs, text, "true")
RECURSIVE labels_specs(_, _)
labels_specs(specs, labels) ==
  IF labels = <<>> THEN specs ELSE labels_specs(label_spec(specs, Head(labels)), Tail(labels))
\* IdealistaScraper._parse_features (every item carries a list of labels)
RECURSIVE _parse_features_from(_, _)
_parse_features_from(specs, items) ==
  IF items = <<>> THEN specs
  ELSE _parse_features_from(labels_specs(specs, Head(items).label), Tail(items))
_parse_features(items) == _parse_features_from(EmptyDict, items)

\* IdealistaScraper._parse_detail_features: li texts with ":" are specs, the
\* others are features
RECURSIVE html_specs_from(_, _)
html_specs_from(specs, texts) ==
  IF texts = <<>> THEN specs
  ELSE LET t == Head(texts)
           c == IndexOf(t, ":")
       IN html_specs_from(IF t # "" /\ c > 0
                          THEN Put(specs, Strip(SubSeq(t, 1, c - 1)), Strip(SubSeq(t, c + 1, Len(t))))
                          ELSE specs, Tail(texts))
_parse_detail_features(page) ==
  [specs |-> html_specs_from(EmptyDict, page.html_items),
   features |-> SelectSeq(page.html_items, LAMBDA t : t # "" /\ IndexOf(t, ":") = 0)]

RECURSIVE KeepPriceChars(_)
KeepPriceChars(s) ==
  IF Len(s) = 0 THEN ""
  ELSE (IF IsDigit(SubSeq(s, 1, 1)) \/ SubSeq(s, 1, 1) \in {".", ","} THEN SubSeq(s, 1, 1) ELSE "")
         \o KeepPriceChars(SubSeq(s, 2, Len(s)))
RECURSIVE SpanishNumber(_)
SpanishNumber(s) ==
  IF Len(s) = 0 THEN ""
  ELSE (IF SubSeq(s, 1, 1) = "." THEN "" ELSE IF SubSeq(s, 1, 1) = "," THEN "." ELSE SubSeq(s, 1, 1))
         \o SpanishNumber(SubSeq(s, 2, Len(s)))

\* mutant of detail_price: the price element is read first
detail_price_html_first(page) ==
  IF page.html_price # None THEN float_str(SpanishNumber(KeepPriceChars(page.html_price[1])))
  ELSE IF TruthyNum(page.js_price) THEN page.js_price
  ELSE None

\* price of parse_detail_page: the JS value, else the price element
detail_price(page) ==
  IF TruthyNum(page.js_price) THEN page.js_price
  ELSE IF page.html_price # None THEN float_str(SpanishNumber(KeepPriceChars(page.html_price[1])))
  ELSE None

\* title of parse_detail_page: the JS title, else the h1, else a placeholder
detail_title(page, ad_id) ==
  IF TruthyStr(page.js_title) THEN page.js_title[1]
  ELSE IF TruthyStr(page.h1) THEN page.h1[1]
  ELSE "Listing " \o ad_id

\* images of parse_detail_page: the first 10 gallery pictures that are no plans
detail_images(page) ==
  LET pics == SelectSeq(page.gallery, LAMBDA pic : ~pic.isPlan /\ pic.src # "")
  IN [k \in 1..(IF Len(pics) > 10 THEN 10 ELSE Len(pics)) |-> pics[k].src]

\* specs of parse_detail_page: JS specs, supplemented by the HTML specs
detail_specs(page) ==
  LET js == Update(_parse_features(page.media_features), _parse_features(page.header_features))
      html == _parse_detail_features(page).specs
  IN Update(html, js)

\* coordinates of parse_detail_page.  float() raising ValueError leaves the
\* assignments made before it in place.
detail_coordinates(page) ==
  LET m == page.map_el
      latRaises == m # None /\ m[1].lat # "" /\ float_str(m[1].lat) = None
      lat1 == IF m = None \/ m[1].lat = "" THEN None ELSE float_str(m[1].lat)
      lon1 == IF m = None \/ latRaises \/ m[1].lon = "" THEN None ELSE float_str(m[1].lon)
      js == page.js_lat # None /\ page.js_lon # None
  IN IF lat1 # None \/ ~js THEN [latitude |-> lat1, longitude |-> lon1]
     ELSE IF float_str(page.js_lat[1]) = None THEN [latitude |-> lat1, longitude |-> lon1]
     ELSE [latitude |-> float_str(page.js_lat[1]),
           longitude |-> IF float_str(page.js_lon[1]) = None THEN lon1
                         ELSE float_str(page.js_lon[1])]

\* IdealistaScraper.parse_detail_page
parse_detail_page(page, ad_id, listing_type) ==
  LET title == detail_title(page, ad_id)
      specs == detail_specs(page)
      loc == _extract_location(page)
      xy == detail_coordinates(page)
  IN Property(
       [listing_type |-> listing_type, sub_category |-> _guess_sub_category(title),
        title |-> title,
        description |-> IF TruthyStr(page.comment) THEN page.comment ELSE None,
        price |-> detail_price(page), location |-> loc.location, province |-> loc.province,
        municipality |-> loc.municipality, neighborhood |-> loc.neighborhood,
        postal_code |-> loc.postal_code,
        latitude |-> xy.latitude, longitude |-> xy.longitude,
        images |-> detail_images(page), specs |-> specs,
        features |-> _parse_detail_features(page).features,
        source |-> "idealista", source_id |-> ad_id,
        source_url |-> Some(IDEALISTA_BASE_URL \o "/inmueble/" \o ad_id \o "/")])

\* mutant of merge_detail: the detail description always wins
merge_detail_overwrites(prop, d) ==
  [prop EXCEPT !.description = IF TruthyStr(d.description) THEN d.description ELSE @,
               !.neighborhood = IF TruthyStr(d.neighborhood) THEN d.neighborhood ELSE @]

\* mutant of merge_detail: a merged record is marked as enriched
merge_detail_marks(prop, d) == [prop EXCEPT !.enriched = TRUE]

\* the merge of _enrich_from_detail_pages, for one record and its detail record
merge_detail(prop, d) ==
  LET fill == ~TruthyNum(prop.latitude) /\ TruthyNum(d.latitude)
      newTitle == d.title # "" /\ d.title # "Listing " \o prop.source_id
      specs == Update(d.specs, prop.specs)
      title == IF newTitle THEN d.title ELSE prop.title
  IN [prop EXCEPT
        !.description = IF ~TruthyStr(prop.description) /\ TruthyStr(d.description)
                        THEN d.description ELSE @,
        !.latitude = IF fill THEN d.latitude ELSE @,
        !.longitude = IF fill THEN d.longitude ELSE @,
        !.neighborhood = IF ~TruthyStr(prop.neighborhood) /\ TruthyStr(d.neighborhood)
                         THEN d.neighborhood ELSE @,
        !.postal_code = IF ~TruthyStr(prop.postal_code) /\ TruthyStr(d.postal_code)
                        THEN d.postal_code ELSE @,
        !.images = IF Len(d.images) > Len(prop.images) THEN d.images ELSE @,
        !.specs = specs,
        !.title = title,
        !.sub_category = IF newTitle THEN _guess_sub_category(title) ELSE @]

\* --------------------------------- detail pages parsed and merged, one by one
Ad1 == [adId |-> "101", address |-> "Piso en calle Colon, Valencia", price |-> Some(150000),
        features |-> <<"2 hab.", "97 m2", "Planta 2 Con ascensor", "Garaje">>,
        thumbnail |-> "th1", detailUrl |-> "/inmueble/101/", ribbons |-> <<>>]
Ad2 == [adId |-> "102", price |-> Some(0)]
Ad3 == [adId |-> "103", address |-> "Chalet en Ruzafa", price |-> Some(320000),
        features |-> <<"4 hab.">>, thumbnail |-> "th3", ribbons |-> <<"Obra Nueva">>]
Ads == {Ad1, Ad2, Ad3}
AjaxRecords == {parse_ajax_ad(ad, "sale") : ad \in Ads}
\* records handed to the merge with more fields present than the AJAX ad gives
FullerRecords ==
  {[parse_ajax_ad(Ad1, "sale") EXCEPT !.description = Some("From the list"),
                                      !.neighborhood = Some("El Carmen"),
                                      !.postal_code = Some("46001")],
   [parse_ajax_ad(Ad3, "rent") EXCEPT !.latitude = Some(40), !.longitude = Some(-2),
                                      !.images = <<"th3", "th3b">>]}
MergeBases == AjaxRecords \cup FullerRecords

PlainIdePage ==
  [js_price |-> Some(151000), html_price |-> Some("149.000 EUR"), js_title |-> None,
   h1 |-> Some("Piso en venta en calle Colon"), gallery |-> <<>>,
   media_features |-> <<[label |-> <<"Garaje", "Orientacion: sur">>]>>,
   header_features |-> <<[label |-> <<"Orientacion: norte">>]>>,
   html_items |-> <<"Orientacion: este", "Calefaccion: gas", "Terraza">>,
   header_map |-> None, comment |-> None, map_el |-> None, js_lat |-> None, js_lon |-> None]
RawCoords == {"", "39", "x"}
CoordPages ==
  {[PlainIdePage EXCEPT !.map_el = m, !.js_lat = a, !.js_lon = b] :
     m \in {None} \cup {Some([lat |-> la, lon |-> lo]) : la \in RawCoords, lo \in RawCoords},
     a \in {None, Some("39"), Some(".")}, b \in {None, Some("-1"), Some("-")}}
Galleries ==
  {<<>>, <<[src |-> "full1", isPlan |-> FALSE]>>,
   <<[src |-> "full1", isPlan |-> FALSE], [src |-> "plan", isPlan |-> TRUE],
     [src |-> "full2", isPlan |-> FALSE]>>}
ContentPages ==
  {[PlainIdePage EXCEPT !.js_title = t, !.h1 = h, !.comment = c, !.gallery = g, !.header_map = hm] :
     t \in {None, Some("Chalet en venta"), Some("Vivienda en venta")},
     h \in {None, Some("Piso en venta en calle Colon")},
     c \in {None, Some("Detail text")}, g \in Galleries,
     hm \in {None, Some(<<"Ruzafa 46004", "Valencia", "Valencia">>)}}
\* pages without mortgagesConfig or with initialPrice 0, with and without the
\* price element
PricePages ==
  {[PlainIdePage EXCEPT !.js_price = j, !.html_price = h, !.header_features = hf] :
     j \in {None, Some(0)}, h \in {None, Some("149.000 EUR")},
     hf \in {<<>>, <<[label |-> <<"Orientacion: norte">>]>>}}
IdePages == CoordPages \cup ContentPages \cup PricePages

SreCoordPages ==
  {[BarePage EXCEPT !.map_entry = e, !.meta_lat = a, !.meta_lng = b] :
     e \in {None, Some([lat |-> Some("39"), lng |-> Some("-1")]),
            Some([lat |-> Some("39"), lng |-> Some("x")]),
            Some([lat |-> None, lng |-> Some("-1")])},
     a \in {None, Some("39"), Some("")}, b \in {None, Some("-1"), Some("x")}}

DetailInit ==
  /\ \/ \E b \in MergeBases, pg \in IdePages :
          bench = [pc |-> "listed", prop |-> b, page |-> pg, detail |-> None, merged |-> None]
     \/ \E it \in ListItems, pg \in SreCoordPages \cup DetailPages :
          bench = [pc |-> "item", item |-> it, page |-> pg, detail |-> None, merged |-> None]
  /\ sre = Unused /\ ide = Unused /\ EnrichIdle

\* Idealista: detail_prop = self.parse_detail_page(detail_html, ...)
ParseDetail ==
  /\ bench.pc = "listed"
  /\ bench' = [bench EXCEPT !.pc = "parsed",
                 !.detail = Some(parse_detail_page(bench.page, bench.prop.source_id,
                                                   bench.prop.listing_type))]
  /\ UNCHANGED <<evars, sre, ide>>

\* Idealista: the merge of the detail record into the listed record
MergeDetail ==
  /\ bench.pc = "parsed"
  /\ bench' = [bench EXCEPT !.pc = "merged", !.merged = Some(merge_detail(bench.prop, bench.detail[1]))]
  /\ UNCHANGED <<evars, sre, ide>>

\* spain-real-estate: the detail data of a page
SreParseDetail ==
  /\ bench.pc = "item"
  /\ bench' = [bench EXCEPT !.pc = "data", !.detail = Some(_parse_detail_data(bench.page))]
  /\ UNCHANGED <<evars, sre, ide>>

\* spain-real-estate: the record built from the item updated with the detail data
SreBuild ==
  /\ bench.pc = "data"
  /\ bench' = [bench EXCEPT !.pc = "built",
                 !.merged = Some(build_property(Update(bench.item, bench.detail[1]), "sale", "apartment"))]
  /\ UNCHANGED <<evars, sre, ide>>

DetailNext == ParseDetail \/ MergeDetail \/ SreParseDetail \/ SreBuild
SpecDetail == DetailInit /\ [][DetailNext]_vars

Placeholder(ad_id) == "Listing " \o ad_id
KeptFields ==
  {"id", "listing_type", "status", "price", "location", "region", "province", "municipality",
   "features", "source", "source_id", "source_url", "enriched", "translations"}
ImagesRule(b, d, m) == m.images = IF Len(d.images) > Len(b.images) THEN d.images ELSE b.images
GapRule(b, m) ==
  /\ \A f \in {"description", "neighborhood", "postal_code"} : TruthyStr(b[f]) => m[f] = b[f]
  /\ TruthyNum(b.latitude) => (m.latitude = b.latitude /\ m.longitude = b.longitude)
  /\ \A f \in KeptFields : m[f] = b[f]
  /\ \A k \in DOMAIN b.specs : k \in DOMAIN m.specs /\ m.specs[k] = b.specs[k]

PairedCoordinates(r) == (r.latitude = None) <=> (r.longitude = None)

\* C9: every record a builder or a merge produces has latitude and longitude
\* both present or both absent (Idealista parse_detail_page and merge,
\* spain-real-estate _parse_detail_data and build_property).
C9_CoordinatesPaired ==
  /\ bench.pc \in {"parsed", "merged"} => PairedCoordinates(bench.detail[1])
  /\ bench.pc = "merged" => PairedCoordinates(bench.merged[1])
  /\ bench.pc \in {"data", "built"} =>
       ("latitude" \in DOMAIN bench.detail[1] <=> "longitude" \in DOMAIN bench.detail[1])
  /\ bench.pc = "built" => PairedCoordinates(bench.merged[1])

\* ------------------------------------- spain-real-estate: scrape(), the loop
ITEMS_PER_PAGE == 24
CeilDiv(a, b) == (a + b - 1) \div b
Min(a, b) == IF a < b THEN a ELSE b

\* a fetched list page: what parse_list_page, parse_total_count and
\* parse_last_page return for it
ListPage(items, total_count, last_page) ==
  [ok |-> TRUE, items |-> items, total_count |-> total_count, last_page |-> last_page]
\* the listing of ItemFull as a later page shows it, with another price
ItemRelisted == [ItemFull EXCEPT !.price_text = Some(EUR1500Monthly)]
ItemLists == {<<>>, <<ItemFull>>, <<ItemFull, ItemNoLink, ItemRental>>, <<ItemRental, ItemRelisted>>}
FirstListPages ==
  {ListPage(its, c, l) : its \in ItemLists,
     c \in {0, ITEMS_PER_PAGE + 1, 2 * ITEMS_PER_PAGE + 1}, l \in {1, MaxPagesBound}}
LaterListPages == {ListPage(its, 0, 1) : its \in ItemLists}
ScrapeNets == {AllOk(RichPage), AllOk(BarePage),
               [detail |-> FetchFailed, es |-> FetchFailed, ru |-> FetchFailed],
               [detail |-> FetchBroke, es |-> FetchFailed, ru |-> FetchFailed]}

\* Pacing of a scrape: delayed tells whether _delay_sync has run since the
\* last fetch (or no fetch was made yet), hasty whether the step just taken
\* issued a fetch that no delay separates from the fetch before it.
Paced(st) == [delayed |-> st.delayed, hasty |-> FALSE]
RECURSIVE Pace(_, _)
Pace(pace, events) ==
  IF events = <<>> THEN pace
  ELSE Pace(IF Head(events) = "delay" THEN [pace EXCEPT !.delayed = TRUE]
            ELSE [delayed |-> FALSE, hasty |-> pace.hasty \/ ~pace.delayed],
            Tail(events))
WithPace(st, events) ==
  [st EXCEPT !.delayed = Pace(Paced(st), events).delayed, !.hasty = Pace(Paced(st), events).hasty]

\* the total page count scrape() takes from page 1
sre_total_pages(resp) ==
  IF resp.total_count # 0 THEN CeilDiv(resp.total_count, ITEMS_PER_PAGE) ELSE resp.last_page

\* mutant of SreNextTab: the next tab goes on at the page the last one reached
SreNextTab_keeps_page(st) ==
  [st EXCEPT !.pc = "while", !.tabs = Tail(st.tabs), !.total_pages = st.max_pages,
             !.items = <<>>, !.fetched = 0, !.reported = None, !.empty = FALSE]

\* the state of scrape() when it moves on to the next tab
SreNextTab(st) ==
  [st EXCEPT !.pc = "while", !.tabs = Tail(st.tabs), !.page = 1, !.total_pages = st.max_pages,
             !.items = <<>>, !.fetched = 0, !.reported = None, !.empty = FALSE]

SreInit ==
  \E tabs \in {<<"apartment">>, <<"villa", "land">>}, mp \in 0..MaxPagesBound, en \in BOOLEAN :
    sre = [pc |-> "while", tabs |-> tabs, listing_type |-> "sale", max_pages |-> mp,
           enrich |-> en, page |-> 1, total_pages |-> mp, items |-> <<>>,
           all_properties |-> <<>>, seen_ids |-> {},
           firsts |-> EmptyDict, \* source_id -> the tab and item of its first occurrence
           fetched |-> 0,       \* list pages fetched for the current tab
           reported |-> None,   \* the page count page 1 of the tab reported
           empty |-> FALSE,     \* a page of the current tab had no items
           afterEmpty |-> FALSE, \* a list page was fetched after an empty one of its tab
           failures |-> 0,      \* list-page fetches that raised FetchError
           delayed |-> TRUE, hasty |-> FALSE
          ]

\* while page <= min(max_pages, total_pages): fetch and parse one list page
SreFetchList ==
  /\ sre.pc = "while" /\ sre.tabs # <<>>
  /\ sre.page <= Min(sre.max_pages, sre.total_pages)
  /\ \E resp \in {FetchFailed} \cup (IF sre.page = 1 THEN FirstListPages ELSE LaterListPages) :
       LET st == WithPace([sre EXCEPT !.fetched = @ + 1, !.afterEmpty = @ \/ sre.empty],
                          <<"fetch_list">>)
       IN IF ~resp.ok THEN sre' = SreNextTab([st EXCEPT !.failures = @ + 1])
          ELSE IF resp.items = <<>> THEN sre' = SreNextTab([st EXCEPT !.empty = TRUE])
          ELSE sre' = [st EXCEPT !.pc = "items", !.items = resp.items,
                         !.total_pages = IF sre.page = 1 THEN sre_total_pages(resp) ELSE @,
                         !.reported = IF sre.page = 1 THEN Some(sre_total_pages(resp)) ELSE @]
  /\ UNCHANGED <<evars, ide, bench>>

\* for item in items: skip a seen id, else (enrich and) build the record
SreItem ==
  /\ sre.pc = "items" /\ sre.items # <<>>
  /\ LET item == Head(sre.items)
         sid == IF "source_id" \in DOMAIN item THEN item.source_id[1] ELSE ""
         firsts == IF sid \in DOMAIN sre.firsts THEN sre.firsts
                   ELSE Put(sre.firsts, sid, [tab |-> Head(sre.tabs), item |-> item])
     IN IF sid \in sre.seen_ids
        THEN sre' = [sre EXCEPT !.items = Tail(@), !.firsts = firsts, !.hasty = FALSE]
        ELSE \E net \in ScrapeNets :
               LET r == IF sre.enrich /\ TruthyStr(Get(item, "source_url"))
                        THEN _enrich_item(item, net)
                        ELSE [raised |-> FALSE, item |-> item, trace |-> <<>>]
                   events == IF sre.enrich /\ TruthyStr(Get(item, "source_url"))
                             THEN <<"delay">> \o r.trace ELSE <<>>
                   built == build_property(IF r.raised THEN item ELSE r.item,
                                           sre.listing_type, Head(sre.tabs))
               IN IF r.raised /\ ~IsFetchError(net.detail)
                  THEN \* except FetchError does not catch it: scrape() raises
                       sre' = WithPace([sre EXCEPT !.pc = "raised", !.seen_ids = @ \cup {sid},
                                                   !.firsts = firsts], events)
                  ELSE sre' = WithPace([sre EXCEPT !.items = Tail(@), !.seen_ids = @ \cup {sid},
                                                   !.firsts = firsts,
                                                   !.all_properties = Append(@, built)], events)
  /\ UNCHANGED <<evars, ide, bench>>

\* end of the page: page += 1, politeness delay, back to the while test
SrePageDone ==
  /\ sre.pc = "items" /\ sre.items = <<>>
  /\ sre' = WithPace([sre EXCEPT !.pc = "while", !.page = @ + 1], <<"delay">>)
  /\ UNCHANGED <<evars, ide, bench>>

\* the while test fails: next tab
SreTabDone ==
  /\ sre.pc = "while" /\ sre.tabs # <<>>
  /\ sre.page > Min(sre.max_pages, sre.total_pages)
  /\ sre' = SreNextTab([sre EXCEPT !.hasty = FALSE])
  /\ UNCHANGED <<evars, ide, bench>>

\* no tab left: return all_properties
SreReturn ==
  /\ sre.pc = "while" /\ sre.tabs = <<>>
  /\ sre' = [sre EXCEPT !.pc = "done", !.hasty = FALSE]
  /\ UNCHANGED <<evars, ide, bench>>

\* ----------------------------- Idealista: _scrape_html_pages, the fallback
IdListPage(ids, total) == [ok |-> TRUE, ids |-> ids, total |-> total]
IdListPages == {IdListPage(ids, t) : ids \in {<<>>, <<"101">>, <<"101", "102">>},
                                     t \in 1..MaxPagesBound}
IdDetailPages == {PlainIdePage,
                  [PlainIdePage EXCEPT !.map_el = Some([lat |-> "39", lon |-> "-1"]),
                                       !.comment = Some("Detail text")]}
RECURSIVE Unique(_, _)
Unique(ids, acc) ==
  IF ids = <<>> THEN acc
  ELSE Unique(Tail(ids), IF \E k \in 1..Len(acc) : acc[k] = Head(ids) THEN acc
                         ELSE Append(acc, Head(ids)))

AJAX_URL_TEMPLATES == {"sale", "rent", "new-building"}
LIST_URL_TEMPLATES == {"sale", "rent"}
\* the ad of Ad1 as the same response lists it a second time
Ad1Again == [Ad1 EXCEPT !.price = Some(140000)]
AjaxResponses ==
  {FetchFailed, FetchBroke} \cup {[ok |-> TRUE, ads |-> a] : a \in {<<>>, <<Ad1>>, <<Ad3, Ad1>>, <<Ad1, Ad3, Ad1Again>>}}
RECURSIVE parse_ajax_ads(_, _)
parse_ajax_ads(ads, listing_type) ==
  IF ads = <<>> THEN <<>>
  ELSE <<parse_ajax_ad(Head(ads), listing_type)>> \o parse_ajax_ads(Tail(ads), listing_type)

IdeInit ==
  \E lt \in {"sale", "new-building", "land"}, mp \in 0..MaxPagesBound, en \in BOOLEAN :
    ide = [pc |-> "warmup", listing_type |-> lt, max_pages |-> mp, enrich |-> en,
           page |-> 1, total_pages |-> 1,
           all_ids |-> <<>>, unique_ids |-> <<>>, properties |-> <<>>, k |-> 0,
           ads |-> <<>>,        \* the ads of the AJAX response
           fetched |-> 0, reported |-> None, empty |-> FALSE, afterEmpty |-> FALSE,
           warmed |-> FALSE,    \* the warm-up page was opened
           ajax_calls |-> 0,    \* calls of _fetch_json
           ajax |-> "none",     \* how the AJAX call ended: raised, empty, ads
           fallbacks |-> 0,     \* calls of _scrape_html_pages
           detailed |-> <<>>,   \* the ids whose detail page the fallback fetched
           delayed |-> TRUE, hasty |-> FALSE]

\* step 1 of scrape(): open the warm-up page of the listing type, then delay
IdeWarmup ==
  /\ ide.pc = "warmup"
  /\ ide' = WithPace([ide EXCEPT !.pc = "ajax", !.warmed = TRUE], <<"goto_warmup", "delay">>)
  /\ UNCHANGED <<evars, sre, bench>>

\* step 2 with a listing type that has no AJAX template: ValueError
IdeUnknownType ==
  /\ ide.pc = "ajax" /\ ide.listing_type \notin AJAX_URL_TEMPLATES
  /\ ide' = [ide EXCEPT !.pc = "error", !.hasty = FALSE]
  /\ UNCHANGED <<evars, sre, bench>>

\* mutant of ajax_falls_back: every listing type falls back
ajax_falls_back_always(listing_type) == TRUE

\* scrape(): if listing_type in self.LIST_URL_TEMPLATES, after an AJAX call
\* that raised or returned no ads
ajax_falls_back(listing_type) == listing_type \in LIST_URL_TEMPLATES

\* step 2: the AJAX request; a failure or an empty answer falls back to the
\* HTML list pages when the listing type has them; step 3 builds the records
IdeAjax ==
  /\ ide.pc = "ajax" /\ ide.listing_type \in AJAX_URL_TEMPLATES
  /\ \E resp \in AjaxResponses :
       IF ~resp.ok \/ resp.ads = <<>>
       THEN ide' = WithPace([ide EXCEPT !.pc = IF ajax_falls_back(ide.listing_type)
                                               THEN "for" ELSE "done",
                                        !.fallbacks = IF ajax_falls_back(ide.listing_type)
                                                      THEN @ + 1 ELSE @,
                                        !.ajax_calls = @ + 1,
                                        !.ajax = IF resp.ok THEN "empty" ELSE "raised"],
                            <<"fetch_json">>)
       ELSE ide' = WithPace([ide EXCEPT !.properties = parse_ajax_ads(resp.ads, ide.listing_type),
                                        !.ads = resp.ads,
                                        !.ajax_calls = @ + 1, !.ajax = "ads",
                                        !.k = 1,
                                        !.pc = IF ide.enrich THEN "enrich" ELSE "done"],
                            <<"fetch_json">>)
  /\ UNCHANGED <<evars, sre, bench>>

IdeLoopEnds(st) == st.page > st.max_pages \/ (st.page > st.total_pages /\ st.page > 1)

\* for page in range(1, max_pages + 1): fetch one list page and collect its ids
IdeFetchList ==
  /\ ide.pc = "for" /\ ~IdeLoopEnds(ide)
  /\ \E resp \in {FetchFailed} \cup IdListPages :
       LET st == [ide EXCEPT !.fetched = @ + 1, !.afterEmpty = @ \/ ide.empty]
       IN IF ~resp.ok THEN ide' = WithPace([st EXCEPT !.pc = "dedupe"], <<"fetch_list">>)
          ELSE ide' = WithPace([st EXCEPT !.page = @ + 1,
                         !.total_pages = IF ide.page = 1 THEN resp.total ELSE @,
                         !.reported = IF ide.page = 1 THEN Some(resp.total) ELSE @,
                         !.all_ids = @ \o resp.ids,
                         !.empty = @ \/ resp.ids = <<>>],
                       IF ide.page < ide.max_pages THEN <<"fetch_list", "delay">>
                       ELSE <<"fetch_list">>)
  /\ UNCHANGED <<evars, sre, bench>>

\* the loop is over: de-duplicate the ids, return [] when there are none
IdeDedupe ==
  /\ ide.pc = "dedupe" \/ (ide.pc = "for" /\ IdeLoopEnds(ide))
  /\ ide' = [ide EXCEPT !.unique_ids = Unique(ide.all_ids, <<>>), !.hasty = FALSE,
                        !.pc = IF ide.all_ids = <<>> THEN "done" ELSE "details"]
  /\ UNCHANGED <<evars, sre, bench>>

\* for ad_id in unique_ids: fetch the detail page and parse it
IdeDetail ==
  /\ ide.pc = "details" /\ ide.unique_ids # <<>>
  /\ \E resp \in {FetchFailed, FetchBroke} \cup {FetchOk(pg) : pg \in IdDetailPages} :
       ide' = WithPace([ide EXCEPT !.unique_ids = Tail(@),
                 !.detailed = Append(@, Head(ide.unique_ids)),
                 !.properties = IF resp.ok
                                THEN Append(@, parse_detail_page(resp.page, Head(ide.unique_ids),
                                                                 ide.listing_type))
                                ELSE @], <<"fetch_detail", "delay">>)
  /\ UNCHANGED <<evars, sre, bench>>

\* return properties
IdeReturn ==
  /\ ide.pc = "details" /\ ide.unique_ids = <<>>
  /\ ide' = [ide EXCEPT !.pc = "done", !.hasty = FALSE]
  /\ UNCHANGED <<evars, sre, bench>>

\* _enrich_from_detail_pages: one record of the loop
IdeEnrich ==
  /\ ide.pc = "enrich" /\ ide.k <= Len(ide.properties)
  /\ \E resp \in {FetchFailed, FetchBroke} \cup {FetchOk(pg) : pg \in IdDetailPages} :
       LET prop == ide.properties[ide.k]
       IN ide' = WithPace([ide EXCEPT !.k = @ + 1,
                    !.properties[ide.k] =
                       IF resp.ok
                       THEN merge_detail(prop, parse_detail_page(resp.page, prop.source_id,
                                                                 prop.listing_type))
                       ELSE prop], <<"fetch_detail", "delay">>)
  /\ UNCHANGED <<evars, sre, bench>>

\* _enrich_from_detail_pages returns the records
IdeEnrichReturn ==
  /\ ide.pc = "enrich" /\ ide.k > Len(ide.properties)
  /\ ide' = [ide EXCEPT !.pc = "done", !.hasty = FALSE]
  /\ UNCHANGED <<evars, sre, bench>>

\* one scrape of either source
ScrapeInit ==
  /\ \/ SreInit /\ ide = Unused
     \/ IdeInit /\ sre = Unused
  /\ bench = Unused /\ EnrichIdle
ScrapeNext == SreFetchList \/ SreItem \/ SrePageDone \/ SreTabDone \/ SreReturn
                \/ IdeWarmup \/ IdeUnknownType \/ IdeAjax
                \/ IdeFetchList \/ IdeDedupe \/ IdeDetail \/ IdeReturn
                \/ IdeEnrich \/ IdeEnrichReturn
SpecScrape == ScrapeInit /\ [][ScrapeNext]_vars

ListingBounded(st) ==
  /\ ~st.afterEmpty
  /\ st.fetched <= st.max_pages
  /\ st.reported # None => st.fetched <= st.reported[1]

\* C10: in both orchestrators no list page is fetched after a page of the
\* same listing that had zero items, and the number of list pages fetched
\* never exceeds min(max_pages, the page count the site reported).
C10_ListingStops ==
  /\ sre.pc # "unused" => ListingBounded(sre)
  /\ ide.pc # "unused" => ListingBounded(ide)

DistinctIds(props) ==
  \A j, k \in 1..Len(props) : j # k => props[j].source_id # props[k].source_id
\* the first ad of the AJAX response with the given adId
FirstAd(ads, id) == ads[CHOOSE k \in 1..Len(ads) : ads[k].adId = id /\ \A j \in 1..(k - 1) : ads[j].adId # id]

\* spain-real-estate: the records are distinct by source_id and each is the
\* one built from the first occurrence of its id (tab, link, and without
\* enrichment the whole record)
SreFirstWins ==
  sre.pc # "unused" =>
    /\ DistinctIds(sre.all_properties)
    /\ \A j \in 1..Len(sre.all_properties) :
         LET r == sre.all_properties[j]
             f == sre.firsts[r.source_id]
         IN /\ r.sub_category = Some(TAB_SUB_CATEGORY[f.tab])
            /\ r.source_url = Get(f.item, "source_url")
            /\ ~sre.enrich => r = build_property(f.item, sre.listing_type, f.tab)

\* Idealista: the records are distinct by source_id, and a record built from
\* the AJAX response is built from the first ad with its adId
IdeFirstWins ==
  ide.pc # "unused" =>
    /\ DistinctIds(ide.properties)
    /\ (ide.ads # <<>> /\ ~ide.enrich) =>
         \A j \in 1..Len(ide.properties) :
           ide.properties[j] = parse_ajax_ad(FirstAd(ide.ads, ide.properties[j].source_id),
                                             ide.listing_type)

\* C11: the list scrape returns is de-duplicated by identifier, the first
\* occurrence winning: no two records of either scraper share a source_id and
\* the record kept for an identifier is the one built from its first
\* occurrence, for every sequence of pages and every AJAX response.
C11_Deduplicated == SreFirstWins /\ IdeFirstWins

\* ------------------------------------------- one scraper object: fetching
MaxFetches == 2          \* fetch calls in one life of a scraper object
MAX_RETRIES == 3
RATE_LIMIT_COOLDOWN == 60
STOP_AFTER_ATTEMPT == 3
HttpStatuses == {200, 403, 404, 429, 500, 503}

\* idealista._is_retryable, for a FetchError with the given status
_is_retryable(status) == status \in {403, 429, 503}

\* tenacity's wait_exponential(multiplier=2, min=4, max=30) after the given
\* attempt: multiplier * 2 ** (attempt - 1), clamped
wait_exponential(attempt) ==
  LET e == 2 * (2 ^ (attempt - 1))
  IN IF e < 4 THEN 4 ELSE IF e > 30 THEN 30 ELSE e

\* mutant of stop_after_attempt: the retrying never gives up
stop_after_attempt_never(attempt) == FALSE

\* tenacity's stop_after_attempt(3), asked after the given attempt
stop_after_attempt(attempt) == attempt >= STOP_AFTER_ATTEMPT

NoFetch == [fn |-> "none", running |-> FALSE]
\* a scraper object inside its with block, before any fetch
NewScraper(kind) ==
  [pc |-> "open", kind |-> kind,
   http |-> FALSE,          \* self._http is an open httpx.Client
   browser |-> FALSE,       \* self._page (browser, context, page) is open
   _use_browser |-> FALSE,
   created |-> <<>>,        \* the sessions created, in order
   fetches |-> 0,           \* fetch calls started
   call |-> NoFetch,        \* the running or last fetch call
   outcome |-> None]        \* how the last call ended: [raised, status]

SessionInit ==
  /\ \E kind \in {"spain-real-estate", "idealista"} : bench = NewScraper(kind)
  /\ sre = Unused /\ ide = Unused /\ EnrichIdle

\* the state of a fetch call that has just been entered
NewCall(fn) ==
  [fn |-> fn, running |-> TRUE, attempt |-> 0, http_attempts |-> 0, browser_attempts |-> 0,
   statuses |-> <<>>, sleeps |-> <<>>, started_in_browser |-> bench._use_browser]

\* a fetch function is called: _fetch_page, or _fetch / _fetch_json
FetchCall ==
  /\ bench.pc = "open" /\ ~bench.call.running /\ bench.fetches < MaxFetches
  /\ \E fn \in IF bench.kind = "idealista" THEN {"_fetch", "_fetch_json"} ELSE {"_fetch_page"} :
       bench' = [bench EXCEPT !.call = NewCall(fn), !.fetches = @ + 1, !.outcome = None]
  /\ UNCHANGED <<evars, sre, ide>>

Ended(call) == [call EXCEPT !.running = FALSE]

\* _fetch_page, one turn of the for loop: client.get and the status tests
SreHttpAttempt ==
  /\ bench.pc = "open" /\ bench.call.running /\ bench.call.fn = "_fetch_page"
  /\ ~bench._use_browser /\ bench.call.attempt < MAX_RETRIES
  /\ \E status \in HttpStatuses :
       LET c == [bench.call EXCEPT !.http_attempts = @ + 1, !.statuses = Append(@, status)]
           b == [bench EXCEPT !.http = TRUE,
                              !.created = IF bench.http THEN @ ELSE Append(@, "http")]
       IN IF status = 403
          THEN bench' = [b EXCEPT !.call = [c EXCEPT !.attempt = @ + 1,
                                    !.sleeps = Append(@, RATE_LIMIT_COOLDOWN * (bench.call.attempt + 1))]]
          ELSE bench' = [b EXCEPT !.call = Ended(c),
                                  !.outcome = Some([raised |-> status >= 400, status |-> status])]
  /\ UNCHANGED <<evars, sre, ide>>

\* _fetch_with_browser: reached at once when _use_browser is set, else after
\* MAX_RETRIES answers of 403, which sets _use_browser
SreBrowserAttempt ==
  /\ bench.pc = "open" /\ bench.call.running /\ bench.call.fn = "_fetch_page"
  /\ bench._use_browser \/ bench.call.attempt = MAX_RETRIES
  /\ \E status \in HttpStatuses :
       bench' = [bench EXCEPT
                   !._use_browser = TRUE, !.browser = TRUE,
                   !.created = IF bench.browser THEN @ ELSE Append(@, "browser"),
                   !.call = Ended([bench.call EXCEPT !.browser_attempts = @ + 1,
                                                     !.statuses = Append(@, status)]),
                   !.outcome = Some([raised |-> status >= 400, status |-> status])]
  /\ UNCHANGED <<evars, sre, ide>>

\* Idealista _fetch / _fetch_json, one attempt under the tenacity decorator:
\* a retryable FetchError before the last attempt sleeps and retries, any
\* other outcome ends the call
IdeAttempt ==
  /\ bench.pc = "open" /\ bench.call.running /\ bench.call.fn \in {"_fetch", "_fetch_json"}
  /\ \E status \in HttpStatuses :
       LET att == bench.call.attempt + 1
           c == [bench.call EXCEPT !.attempt = att, !.browser_attempts = @ + 1,
                                   !.statuses = Append(@, status)]
           b == [bench EXCEPT !.browser = TRUE,
                              !.created = IF bench.browser THEN @ ELSE Append(@, "browser")]
       IN IF status >= 400 /\ _is_retryable(status) /\ ~stop_after_attempt(att)
          THEN bench' = [b EXCEPT !.call = [c EXCEPT !.sleeps = Append(@, wait_exponential(att))]]
          ELSE bench' = [b EXCEPT !.call = Ended(c),
                                  !.outcome = Some([raised |-> status >= 400, status |-> status])]
  /\ UNCHANGED <<evars, sre, ide>>

\* mutant of close: the scraper goes back to HTTP mode
close_resets_mode(scraper) ==
  [scraper EXCEPT !.pc = "closed", !.http = FALSE, !.browser = FALSE, !._use_browser = FALSE]

\* SpainRealEstateScraper.close / BaseScraper.close: the HTTP client and the
\* browser are closed and their handles reset
close(scraper) == [scraper EXCEPT !.pc = "closed", !.http = FALSE, !.browser = FALSE]

\* the with block is left, normally or by an exception at any point:
\* __exit__ calls close()
ExitScope ==
  /\ bench.pc = "open"
  /\ bench' = close(bench)
  /\ UNCHANGED <<evars, sre, ide>>

SessionNext == FetchCall \/ SreHttpAttempt \/ SreBrowserAttempt \/ IdeAttempt \/ ExitScope
SpecSession == SessionInit /\ [][SessionNext]_vars

FetchEnded == ~bench.call.running /\ bench.call.fn # "none"
AttemptCap == IF bench.call.fn = "_fetch_page" THEN MAX_RETRIES ELSE STOP_AFTER_ATTEMPT
Raised(status) == Some([raised |-> TRUE, status |-> status])

\* C12: in _fetch, _fetch_json and _fetch_page a response with status 403,
\* 429 or 503 received before the attempt cap is followed by a retry after a
\* backoff sleep, and a response with any other status >= 400 ends the call
\* at once with FetchError carrying that status.
C12_RetryableStatuses ==
  FetchEnded =>
    LET st == bench.call.statuses
    IN \A j \in 1..Len(st) :
         /\ (st[j] \in {403, 429, 503} /\ j < AttemptCap)
              => (j < Len(st) /\ j <= Len(bench.call.sleeps))
         /\ (st[j] >= 400 /\ st[j] \notin {403, 429, 503})
              => (j = Len(st) /\ bench.outcome = Raised(st[j]))

AllAnswers(S) == \A j \in 1..Len(bench.call.statuses) : bench.call.statuses[j] \in S

\* C13 as stated: when every attempt of a call fails with a retryable status
\* (403, 429, 503), _fetch_page has made exactly MAX_RETRIES HTTP attempts and
\* then exactly one browser attempt, and _fetch exactly 3 attempts, raising
\* the FetchError.
C13_ExactSchedule ==
  (FetchEnded /\ AllAnswers({403, 429, 503})) =>
    IF bench.call.fn = "_fetch_page"
    THEN bench.call.http_attempts = MAX_RETRIES /\ bench.call.browser_attempts = 1
    ELSE bench.call.attempt = STOP_AFTER_ATTEMPT /\ bench.outcome # None /\ bench.outcome[1].raised

\* C13 amended: every fetch call makes a bounded number of attempts:
\* _fetch_page at most MAX_RETRIES HTTP attempts and one browser attempt,
\* _fetch and _fetch_json at most 3.  A _fetch_page call entered in HTTP mode
\* whose every HTTP attempt is answered 403 makes exactly MAX_RETRIES HTTP
\* attempts and then exactly one browser attempt, whose status decides
\* between content and FetchError; a call entered once the scraper has
\* switched to the browser makes no HTTP attempt and exactly one browser
\* attempt.  An Idealista call whose every attempt fails with 403, 429 or 503
\* makes exactly 3 attempts and raises the last FetchError.
C13_BoundedAttempts ==
  LET c == bench.call
  IN c.fn # "none" =>
       /\ c.http_attempts <= MAX_RETRIES
       /\ c.fn = "_fetch_page" => c.browser_attempts <= 1
       /\ c.fn # "_fetch_page" => (c.http_attempts = 0 /\ c.browser_attempts <= STOP_AFTER_ATTEMPT)
       /\ Len(c.statuses) = c.http_attempts + c.browser_attempts
       /\ (FetchEnded /\ c.fn = "_fetch_page") =>
            /\ c.started_in_browser => (c.http_attempts = 0 /\ c.browser_attempts = 1)
            /\ (~c.started_in_browser /\ \A j \in 1..c.http_attempts : c.statuses[j] = 403)
                 => /\ c.http_attempts = MAX_RETRIES /\ c.browser_attempts = 1
                    /\ bench.outcome[1] = [raised |-> c.statuses[MAX_RETRIES + 1] >= 400,
                                           status |-> c.statuses[MAX_RETRIES + 1]]
       /\ (FetchEnded /\ c.fn # "_fetch_page" /\ AllAnswers({403, 429, 503})) =>
            (c.attempt = STOP_AFTER_ATTEMPT /\ bench.outcome = Raised(c.statuses[STOP_AFTER_ATTEMPT]))

C13_Witness ==
  /\ FetchEnded /\ bench.call.fn = "_fetch_page" /\ ~bench.call.started_in_browser
  /\ bench.call.statuses = <<403, 403, 403, 503>> /\ bench.outcome = Raised(503)
  /\ bench.call.sleeps = <<60, 120, 180>> /\ bench.fetches = 1

\* C14: a scraper owns zero or one open transport session at every point (an
\* HTTP client or a browser context, never both at once); a session exists
\* only once a fetch has needed it; after the with-scope is left every handle
\* is closed and reset.
C14_OneSession ==
  /\ ~(bench.http /\ bench.browser)
  /\ (bench.fetches = 0) => (~bench.http /\ ~bench.browser)
  /\ (bench.pc = "closed") => (~bench.http /\ ~bench.browser)

\* what the scrapers do keep of it: lazy creation, each kind of
\* session created at most once, everything released on scope exit
SessionsLazyAndReleased ==
  /\ (bench.fetches = 0) => (~bench.http /\ ~bench.browser)
  /\ (bench.pc = "closed") => (~bench.http /\ ~bench.browser)
  /\ Len(bench.created) <= 2 /\ (Len(bench.created) = 2 => bench.created = <<"http", "browser">>)
  /\ (bench.kind = "idealista") => ~bench.http

\* C15: one bad item never aborts a scrape: when the detail or translation
\* fetch of one listing fails with any kind of error, or one ad fails to
\* parse, neither scrape() raises; the loop goes on and the call returns a
\* record for every listing it has taken up.
C15_NoAbortOnBadItem ==
  /\ sre.pc # "raised"
  /\ ide.pc # "raised"
  /\ (sre.pc = "done") => (Len(sre.all_properties) = Cardinality(sre.seen_ids))

\* ------------------------------------------- the record builders, called
LISTING_TYPES == {"sale", "rent", "new-building"}
SUB_CATEGORIES == {"apartment", "house", "commerce", "plot"}

\* pydantic's validation of the two Literal fields of Property
validation_error(p) ==
  \/ p.listing_type \notin LISTING_TYPES
  \/ p.sub_category # None /\ p.sub_category[1] \notin SUB_CATEGORIES

\* how a call of a builder ends: the record returned, or the exception raised
Returned(p) == [raised |-> "", record |-> Some(p)]
Raises(exc) == [raised |-> exc, record |-> None]
Validated(p) == IF validation_error(p) THEN Raises("ValidationError") ELSE Returned(p)

call_build_property(item, listing_type, tab) == Validated(build_property(item, listing_type, tab))

\* ad["adId"] raises KeyError for an ad without that key
call_parse_ajax_ad(ad, listing_type) ==
  IF "adId" \notin DOMAIN ad THEN Raises("KeyError") ELSE Validated(parse_ajax_ad(ad, listing_type))

call_parse_detail_page(page, ad_id, listing_type) ==
  Validated(parse_detail_page(page, ad_id, listing_type))

\* what callers pass: the three listing types and one outside them
CallerListingTypes == LISTING_TYPES \cup {"land"}
\* the four tabs, an unmapped one and no tab
CallerTabs == Tabs \cup {"garage", ""}
ItemVilla == [source_id |-> Some("4"), title |-> Some(T_VILLA), source_url |-> Some("u4")]
BuildItems == ListItems \cup {ItemVilla, ItemRelisted}
AdNoId == [address |-> "Local en Benimaclet", price |-> Some(90000)]
BuildAds == Ads \cup {Ad1Again, AdNoId}

BuildInit ==
  /\ \/ \E it \in BuildItems, lt \in CallerListingTypes, tab \in CallerTabs :
          bench = [pc |-> "call", fn |-> "build_property", item |-> it, listing_type |-> lt,
                   tab |-> tab, out |-> None]
     \/ \E ad \in BuildAds, lt \in CallerListingTypes :
          bench = [pc |-> "call", fn |-> "parse_ajax_ad", ad |-> ad, listing_type |-> lt,
                   out |-> None]
     \/ \E pg \in IdePages, lt \in CallerListingTypes :
          bench = [pc |-> "call", fn |-> "parse_detail_page", page |-> pg, ad_id |-> "101",
                   listing_type |-> lt, out |-> None]
  /\ sre = Unused /\ ide = Unused /\ EnrichIdle

BuildProperty ==
  /\ bench.pc = "call" /\ bench.fn = "build_property"
  /\ bench' = [bench EXCEPT !.pc = "ended",
                 !.out = Some(call_build_property(bench.item, bench.listing_type, bench.tab))]
  /\ UNCHANGED <<evars, sre, ide>>

ParseAjaxAd ==
  /\ bench.pc = "call" /\ bench.fn = "parse_ajax_ad"
  /\ bench' = [bench EXCEPT !.pc = "ended",
                 !.out = Some(call_parse_ajax_ad(bench.ad, bench.listing_type))]
  /\ UNCHANGED <<evars, sre, ide>>

ParseDetailPage ==
  /\ bench.pc = "call" /\ bench.fn = "parse_detail_page"
  /\ bench' = [bench EXCEPT !.pc = "ended",
                 !.out = Some(call_parse_detail_page(bench.page, bench.ad_id, bench.listing_type))]
  /\ UNCHANGED <<evars, sre, ide>>

BuildNext == BuildProperty \/ ParseAjaxAd \/ ParseDetailPage
SpecBuild == BuildInit /\ [][BuildNext]_vars

BuildReturned == bench.pc = "ended" /\ bench.out[1].raised = ""
HasRibbon(ad) ==
  "ribbons" \in DOMAIN ad /\ \E k \in 1..Len(ad.ribbons) : ad.ribbons[k] \in {"Obra Nueva", "obra nueva"}

\* C16: the record build_property returns has listing_type "rent" when the
\* item carries is_rental, whatever the caller supplied, and the record
\* parse_ajax_ad returns has "new-building" when a ribbon of the ad says
\* "obra nueva"; otherwise the record has the caller-supplied listing_type.
C16_ListingTypePrecedence ==
  BuildReturned =>
    LET r == bench.out[1].record[1]
    IN /\ bench.fn = "build_property" =>
            r.listing_type = IF "is_rental" \in DOMAIN bench.item /\ bench.item.is_rental = Some(TRUE)
                             THEN "rent" ELSE bench.listing_type
       /\ bench.fn = "parse_ajax_ad" =>
            r.listing_type = IF HasRibbon(bench.ad) THEN "new-building" ELSE bench.listing_type

C16_Witness ==
  /\ BuildReturned /\ bench.fn = "build_property" /\ bench.listing_type = "land"
  /\ bench.item = ItemRental /\ bench.out[1].record[1].listing_type = "rent"

RibbonOverrides ==
  /\ BuildReturned /\ bench.fn = "parse_ajax_ad" /\ bench.listing_type = "sale"
  /\ bench.ad = Ad3 /\ bench.out[1].record[1].listing_type = "new-building"

\* the category the keywords of the English list-page title of an item name
TitleCategory(item) ==
  IF "title" \notin DOMAIN item THEN None
  ELSE IF item.title = Some(T_APT) THEN Some("apartment")
  ELSE IF item.title = Some(T_VILLA) THEN Some("house")
  ELSE None

\* C17: build_property takes sub_category from the tab when the tab is one of
\* apartment, villa, commercial, land (giving apartment, house, commerce,
\* plot); only for an absent or unmapped tab does it take the category the
\* keywords of the English title name; when neither gives a value the
\* sub_category is absent, and it is never outside the four categories.
C17_TabThenTitle ==
  (BuildReturned /\ bench.fn = "build_property") =>
    LET sub == bench.out[1].record[1].sub_category
    IN /\ bench.tab = "apartment" => sub = Some("apartment")
       /\ bench.tab = "villa" => sub = Some("house")
       /\ bench.tab = "commercial" => sub = Some("commerce")
       /\ bench.tab = "land" => sub = Some("plot")
       /\ bench.tab \in {"garage", ""} => sub = TitleCategory(bench.item)
       /\ sub = None \/ sub[1] \in {"apartment", "house", "commerce", "plot"}

C17_Witness ==
  /\ BuildReturned /\ bench.fn = "build_property" /\ bench.item = ItemVilla
  /\ bench.tab = "land" /\ bench.out[1].record[1].sub_category = Some("plot")

TitleFallback ==
  /\ BuildReturned /\ bench.fn = "build_property" /\ bench.item = ItemVilla
  /\ bench.tab = "garage" /\ bench.out[1].record[1].sub_category = Some("house")
NeitherGives ==
  /\ BuildReturned /\ bench.fn = "build_property" /\ bench.item = ItemNoLink
  /\ bench.tab = "" /\ bench.out[1].record[1].sub_category = None

EnrichSucceeded == bench.pc = "record" /\ bench.out # None /\ ~bench.out[1].same

\* C18: when enrich_property succeeds, the sub_category of its result equals
\* the sub_category of the input record, whether that is apartment, house,
\* commerce, plot or absent.
C18_KeepsSubCategory ==
  EnrichSucceeded => bench.out[1].result.sub_category = bench.from[1].sub_category

\* what holds of it: a sub_category that is present is kept
KeepsPresentSubCategory ==
  (EnrichSucceeded /\ bench.from[1].sub_category # None)
    => bench.out[1].result.sub_category = bench.from[1].sub_category
AbsentBecomesApartment ==
  /\ EnrichSucceeded /\ bench.from[1].sub_category = None
  /\ bench.out[1].result.sub_category = Some("apartment")
  /\ bench.from[1].title = T_PLAIN

Locales(p) == [k \in 1..Len(p.translations) |-> p.translations[k].locale]

\* C19: the translations of every record that _enrich_item and build_property
\* produce are in the order "en" then "ru", at most one per locale and none
\* for "es", and each carries the id of its record as property_id; the same
\* holds of a record that is enriched again.
C19_TranslationsOrdered ==
  (bench.pc = "record") =>
    /\ Locales(bench.prop) \in {<<>>, <<"en">>, <<"ru">>, <<"en", "ru">>}
    /\ \A k \in 1..Len(bench.prop.translations) :
         bench.prop.translations[k].property_id = bench.prop.id

C19_Witness ==
  /\ bench.pc = "record" /\ bench.count = 2 /\ ~bench.out[1].same
  /\ bench.from[1].enriched /\ Locales(bench.from[1]) = <<"en", "ru">>
  /\ Locales(bench.prop) = <<"en", "ru">>
  /\ bench.net[1].es.ok /\ bench.prop.title = T_ES

\* C20: build_property, parse_ajax_ad and parse_detail_page are total: for
\* every fragment, with fields missing or malformed, and every caller-supplied
\* listing_type, the call returns a record and raises no error.
C20_BuildersTotal ==
  (bench.pc = "ended") => (bench.out[1].raised = "" /\ bench.out[1].record # None)

\* what the builders do keep of it: with a listing_type of the vocabulary
\* and, for an ad, an adId, every call returns a record
TotalOnValidCalls ==
  (bench.pc = "ended" /\ bench.listing_type \in LISTING_TYPES
     /\ (bench.fn = "parse_ajax_ad" => "adId" \in DOMAIN bench.ad))
    => bench.out[1].raised = ""
RaisesKeyError ==
  bench.pc = "ended" /\ bench.fn = "parse_ajax_ad" /\ bench.out[1].raised = "KeyError"
RaisesValidationError ==
  /\ bench.pc = "ended" /\ bench.fn = "build_property" /\ bench.listing_type = "land"
  /\ bench.out[1].raised = "ValidationError"

\* ------------------------------------------------ cli.py: the commands
\* Path.suffix of a file name
path_suffix(name) ==
  IF LastIndexOf(name, ".") > 1 THEN SubSeq(name, LastIndexOf(name, "."), Len(name)) ELSE ""

\* run(): the output file name, from --name or from source, type and time
run_filename(name, source, listing_type) ==
  IF name # None /\ name[1] # ""
  THEN "data/" \o (IF path_suffix(name[1]) # ".jsonl" THEN with_suffix(name[1], ".jsonl")
                   ELSE name[1])
  ELSE "data/" \o source \o "_" \o listing_type \o "_T.jsonl"

CliSources == {"idealista", "spain-real-estate", "fotocasa"}
CliNames == {None, Some("out"), Some("out.jsonl"), Some("out.txt")}
\* the input file of sync and enrich: missing, or the sources of its records
CliInputs == {None, Some(<<>>), Some(<<"spain-real-estate">>), Some(<<"idealista">>),
              Some(<<"fotocasa", "idealista">>)}
\* what scraper.scrape returns: the number of records
CliScrapeResults == 0..2

NewCommand(cmd) ==
  [pc |-> "start", cmd |-> cmd, source |-> "", name |-> None, input |-> None,
   scraper |-> "", found |-> 0, loaded |-> 0,
   exit |-> None,       \* the exit code of the process
   echoed |-> <<>>,     \* the messages typer.echo has printed
   fetches |-> 0,       \* fetches issued by the scraper
   mkdir |-> FALSE,     \* output.mkdir was called
   written |-> {}]      \* files created or rewritten

CliInit ==
  /\ \/ \E cmd \in {"scrape", "run"}, src \in CliSources, nm \in CliNames :
          /\ cmd = "scrape" => nm = None
          /\ bench = [NewCommand(cmd) EXCEPT !.source = src, !.name = nm]
     \/ \E cmd \in {"sync", "enrich"}, inp \in CliInputs :
          bench = [NewCommand(cmd) EXCEPT !.input = inp]
  /\ sre = Unused /\ ide = Unused /\ EnrichIdle

Exits(st, code, msg) == [st EXCEPT !.pc = "exited", !.exit = Some(code), !.echoed = Append(@, msg)]

\* scrape / run: output.mkdir, then _get_scraper(source)
CliGetScraper ==
  /\ bench.pc = "start" /\ bench.cmd \in {"scrape", "run"}
  /\ LET st == [bench EXCEPT !.mkdir = TRUE]
     IN bench' = IF _get_scraper(bench.source) = "Exit"
                 THEN Exits(st, 1, "Unknown source")
                 ELSE [st EXCEPT !.pc = "scraping", !.scraper = _get_scraper(bench.source)]
  /\ UNCHANGED <<evars, sre, ide>>

\* with ... as scraper: properties = scraper.scrape(...); then the empty test
CliScrape ==
  /\ bench.pc = "scraping"
  /\ \E found \in CliScrapeResults, fetches \in 1..2 :
       LET st == [bench EXCEPT !.found = found, !.fetches = fetches]
       IN bench' = IF found = 0 THEN Exits(st, 0, "No properties found.")
                   ELSE [st EXCEPT !.pc = "saving"]
  /\ UNCHANGED <<evars, sre, ide>>

\* the records are written to the output file; scrape ends, run goes on
CliWriteOutput ==
  /\ bench.pc = "saving"
  /\ LET st == [bench EXCEPT !.written = @ \cup {run_filename(bench.name, bench.source, "sale")},
                             !.echoed = Append(@, "Saved")]
     IN bench' = IF bench.cmd = "scrape" THEN [st EXCEPT !.pc = "exited", !.exit = Some(0)]
                 ELSE [st EXCEPT !.pc = "upsert"]
  /\ UNCHANGED <<evars, sre, ide>>

\* sync: the existence test, then the file is loaded
CliSyncLoad ==
  /\ bench.pc = "start" /\ bench.cmd = "sync"
  /\ bench' = IF bench.input = None THEN Exits(bench, 1, "File not found")
              ELSE [bench EXCEPT !.pc = "upsert", !.loaded = Len(bench.input[1]),
                                 !.echoed = Append(@, "Loaded")]
  /\ UNCHANGED <<evars, sre, ide>>

\* upsert_properties and upsert_translations: they succeed, or raise
CliUpsert ==
  /\ bench.pc = "upsert"
  /\ \E ok \in BOOLEAN :
       bench' = IF ok THEN [bench EXCEPT !.pc = "exited", !.exit = Some(0),
                                         !.echoed = Append(@, "Upserted")]
                ELSE [bench EXCEPT !.pc = "exited", !.exit = Some(1)]
  /\ UNCHANGED <<evars, sre, ide>>

\* enrich: the existence test, the load, the scraper of the first record
CliEnrichLoad ==
  /\ bench.pc = "start" /\ bench.cmd = "enrich"
  /\ bench' =
       IF bench.input = None THEN Exits(bench, 1, "File not found")
       ELSE IF bench.input[1] = <<>> THEN Exits(bench, 0, "No properties in file.")
       ELSE LET st == [bench EXCEPT !.source = bench.input[1][1], !.loaded = Len(bench.input[1])]
            IN IF _get_scraper(st.source) = "Exit" THEN Exits(st, 1, "Unknown source")
               ELSE IF ~has_enrich_property(_get_scraper(st.source))
                 THEN Exits([st EXCEPT !.scraper = _get_scraper(st.source)], 1,
                            "does not support per-property enrichment")
               ELSE [st EXCEPT !.pc = "enriching", !.scraper = _get_scraper(st.source),
                               !.echoed = Append(@, "Loaded")]
  /\ UNCHANGED <<evars, sre, ide>>

\* enrich: the loop over the records, each fetched or not, each saved
CliEnrichLoop ==
  /\ bench.pc = "enriching"
  /\ \E fetches \in 0..bench.loaded :
       bench' = [bench EXCEPT !.pc = "exited", !.exit = Some(0), !.fetches = fetches,
                              !.written = {InputFile, tmp_path(InputFile)},
                              !.echoed = Append(@, "Done")]
  /\ UNCHANGED <<evars, sre, ide>>

CliNext == CliGetScraper \/ CliScrape \/ CliWriteOutput \/ CliSyncLoad \/ CliUpsert
             \/ CliEnrichLoad \/ CliEnrichLoop
SpecCli == CliInit /\ [][CliNext]_vars

Echoed(msg) == \E k \in 1..Len(bench.echoed) : bench.echoed[k] = msg
UnknownSource ==
  \/ bench.cmd \in {"scrape", "run"} /\ bench.source \notin {"idealista", "spain-real-estate"}
  \/ bench.cmd = "enrich" /\ bench.input # None /\ bench.input[1] # <<>>
       /\ bench.input[1][1] \notin {"idealista", "spain-real-estate"}

PricePrefixes == {<<>>, <<"EUR">>, <<"EUR", " ">>, <<"EUR", "NBSP">>, <<"-">>}
PriceHeads == {<<>>, <<"1">>, <<"9", "9", "5">>}
PriceSeparators == {<<>>, <<" ">>, <<"NBSP">>, <<"NNBSP">>}
PriceTails == {<<>>, <<"5", "0", "0">>, <<"x">>}
PricePeriods == {<<>>, <<"m","o","n","t","h","l","y">>, <<" ", "m","o","n","t","h","l","y">>,
                 <<"Y","e","a","r","l","y">>, <<" ", "w","e","e","k","l","y">>}
PriceText(parts) == parts.prefix \o parts.head \o parts.sep \o parts.tail \o parts.period

PriceInit ==
  /\ \/ \E parts \in [prefix : PricePrefixes, head : PriceHeads, sep : PriceSeparators,
                      tail : PriceTails, period : PricePeriods] :
          bench = [pc |-> "text", parts |-> Some(parts), text |-> Some(PriceText(parts)),
                   out |-> None]
     \/ bench = [pc |-> "text", parts |-> None, text |-> None, out |-> None]
  /\ sre = Unused /\ ide = Unused /\ EnrichIdle

ParsePrice ==
  /\ bench.pc = "text"
  /\ bench' = [bench EXCEPT !.pc = "parsed", !.out = parse_price(bench.text)]
  /\ UNCHANGED <<evars, sre, ide>>

PriceNext == ParsePrice
SpecPrice == PriceInit /\ [][PriceNext]_vars

OnlyDigits(t) == \A k \in 1..Len(t) : t[k] \in {"0", "1", "2", "3", "4", "5", "6", "7", "8", "9"}
\* a text that is a glyph, digit groups with one separator, and a period word
PlainPrice ==
  /\ bench.parts # None /\ bench.parts[1].prefix # <<"-">>
  /\ bench.parts[1].head # <<>> /\ OnlyDigits(bench.parts[1].tail)
GroupsValue ==
  IF bench.parts[1].head = <<"1">>
  THEN (IF bench.parts[1].tail = <<>> THEN 1 ELSE 1500)
  ELSE (IF bench.parts[1].tail = <<>> THEN 995 ELSE 995500)

\* C22: parse_price gives a non-negative number or no value for every text;
\* None and the empty text give no value; the currency glyph, each space used
\* as thousands separator (regular, narrow, no-break) and a period word,
\* glued or spaced, are removed before the digits are read.
C22_ParsePrice ==
  (bench.pc = "parsed") =>
    /\ bench.out = None \/ bench.out[1] >= 0
    /\ (bench.text = None \/ bench.text = Some(<<>>)) => bench.out = None
    /\ PlainPrice => bench.out = Some(GroupsValue)

\* what parse_price does keep of it, with the regular and the no-break space
ParsesTwoSpaces ==
  (bench.pc = "parsed" /\ PlainPrice /\ bench.parts[1].sep # <<"NNBSP">>)
    => bench.out = Some(GroupsValue)
NarrowSpaceLost ==
  /\ bench.pc = "parsed" /\ bench.out = None
  /\ bench.text = Some(<<"EUR", " ", "1", "NNBSP", "5", "0", "0">>)
NegativePrice == bench.pc = "parsed" /\ bench.out # None /\ bench.out[1] < 0
GluedMonthly ==
  /\ bench.pc = "parsed" /\ bench.out = Some(1500)
  /\ bench.text = Some(<<"EUR", " ", "1", "NBSP", "5", "0", "0", "m","o","n","t","h","l","y">>)

\* C23: in every execution of scrape() of either scraper, at least one
\* _delay_sync call separates any two successive fetches: no step issues a
\* fetch that follows the fetch before it without a delay in between.
C23_DelayBetweenFetches ==
  /\ (sre.pc # "unused") => ~sre.hasty
  /\ (ide.pc # "unused") => ~ide.hasty

\* where the delay is missing: the next tab after a failed or empty list
\* page; the fallback list page after the AJAX fetch; the first detail page
\* after the last list page or after the AJAX fetch
HastyNextTab == sre.pc # "unused" /\ sre.hasty /\ sre.fetched = 1 /\ Len(sre.tabs) = 1
HastyFallback == ide.pc # "unused" /\ ide.hasty /\ ide.pc = "for" /\ ide.fetched = 1
HastyFirstDetail == ide.pc # "unused" /\ ide.hasty /\ ide.pc = "details" /\ ide.properties # <<>>
HastyAjaxEnrich == ide.pc # "unused" /\ ide.hasty /\ ide.pc = "enrich" /\ ide.k = 2

Parsed == bench.pc \in {"parsed", "merged"} /\ bench.detail # None
JsSpecs(page) == Update(_parse_features(page.media_features), _parse_features(page.header_features))
HtmlSpecs(page) == _parse_detail_features(page).specs

\* C24: in the record parse_detail_page returns, a JS price wins over the
\* price element and a JS title over the h1 when the page has both, and the
\* specs are the JS specs plus those HTML specs whose key the JS specs lack:
\* no key of the JS specs gets another value.
C24_JsWins ==
  Parsed =>
    LET page == bench.page
        d == bench.detail[1]
    IN /\ (page.js_price # None /\ page.js_price[1] # 0 /\ page.html_price # None)
            => d.price = page.js_price
       /\ (page.js_title # None /\ page.js_title[1] # "" /\ page.h1 # None)
            => d.title = page.js_title[1]
       /\ DOMAIN d.specs = DOMAIN JsSpecs(page) \cup DOMAIN HtmlSpecs(page)
       /\ \A k \in DOMAIN JsSpecs(page) : d.specs[k] = JsSpecs(page)[k]
       /\ \A k \in DOMAIN HtmlSpecs(page) \ DOMAIN JsSpecs(page) : d.specs[k] = HtmlSpecs(page)[k]

C24_Witness ==
  /\ Parsed /\ bench.page.js_price = Some(151000) /\ bench.page.html_price = Some("149.000 EUR")
  /\ bench.detail[1].price = Some(151000)
  /\ bench.page.js_title = Some("Chalet en venta") /\ bench.page.h1 # None
  /\ bench.detail[1].title = "Chalet en venta"
  /\ \E k \in DOMAIN JsSpecs(bench.page) \cap DOMAIN HtmlSpecs(bench.page) :
       JsSpecs(bench.page)[k] # HtmlSpecs(bench.page)[k]
  /\ DOMAIN HtmlSpecs(bench.page) \ DOMAIN JsSpecs(bench.page) # {}

ZeroJsPriceFallsBack ==
  /\ Parsed /\ bench.page.js_price = Some(0) /\ bench.detail[1].price = Some(149000)

Identity(p) == <<p.source, p.source_id, p.id>>
SameIdentities(recs) ==
  /\ Len(recs) = Len(orig)
  /\ \A j \in 1..Len(orig) : Identity(recs[j]) = Identity(orig[j].json)
FileRecordsNow == [j \in 1..Len(InputLines) |-> InputLines[j].json]

\* C25: throughout an enrich run, and after any interruption and restart,
\* the collection in memory and the collection in the file hold exactly the
\* records of the original file, in the original order and with the original
\* (source, source_id, id) at every position.
C25_SameRecords ==
  /\ files[InputFile] # None /\ SameIdentities(FileRecordsNow)
  /\ (pc \in {"loop", "save_open", "save_write", "done", "refused"} /\ run > 0)
       => SameIdentities(properties)

\* what the pass does keep: the number and order of the records, and the
\* identity of every record whose source is the source of the scraper
SameCountAndOwnIdentities ==
  /\ files[InputFile] # None /\ Len(InputLines) = Len(orig)
  /\ \A j \in 1..Len(orig) :
       /\ InputLines[j].json.source_id = orig[j].json.source_id
       /\ orig[j].json.source = "spain-real-estate"
            => Identity(InputLines[j].json) = Identity(orig[j].json)
ForeignRecordRelabelled ==
  /\ pc = "done" /\ Len(orig) = 2 /\ orig[2].json = ForeignRecord
  /\ properties[2].source = "spain-real-estate" /\ properties[2].id = "spain-real-estate-101"
  /\ InputLines[2].json.id = "spain-real-estate-101"

EnrichedAtStart == {j \in 1..Len(startFile) : startFile[j].enriched}
NotEnrichedNow == {j \in 1..Len(properties) : ~properties[j].enriched}

\* C26: when an enrich run completes, n_enriched + n_skipped + n_failed is
\* the number of records, n_skipped the number of records enriched at load
\* time, n_failed the number of records still not enriched; every record not
\* enriched at load time, those without source_url included, was attempted,
\* so a run attempts nothing only when no record was left un-enriched.
C26_Counters ==
  (pc = "done" /\ run > 0) =>
    /\ n.enriched + n.skipped + n.failed = Len(properties)
    /\ n.skipped = Cardinality(EnrichedAtStart)
    /\ n.failed = Cardinality(NotEnrichedNow)
    /\ n.enriched = Cardinality(NotEnrichedAtStart \ NotEnrichedNow)
    /\ NotEnrichedNow \subseteq calls /\ calls = NotEnrichedAtStart
    /\ (calls = {}) <=> (NotEnrichedAtStart = {})

C26_Witness ==
  /\ pc = "done" /\ run = 2 /\ Len(properties) = 2
  /\ n = [enriched |-> 0, skipped |-> 1, failed |-> 1, pending |-> 1]
  /\ ~TruthyStr(properties[2].source_url) /\ calls = {2}

C27_Step ==
  /\ bench._use_browser => bench'._use_browser
  /\ (~bench._use_browser /\ bench'._use_browser) =>
       /\ bench.call.fn = "_fetch_page" /\ bench.call.running
       /\ bench.call.http_attempts = MAX_RETRIES
       /\ bench.call.statuses = [k \in 1..MAX_RETRIES |-> 403]
  /\ (bench._use_browser /\ bench'.call.fn # "none") =>
       /\ bench'.call.http_attempts <= bench.call.http_attempts
       /\ bench'.call.started_in_browser => bench'.call.http_attempts = 0
       /\ bench'.http => bench.http

\* C27: _use_browser starts false, becomes true only in a _fetch_page call
\* whose MAX_RETRIES HTTP attempts were all answered 403, is never set back
\* to false, not even by close, and once it is true no _fetch_page call on
\* the instance makes an HTTP-client request.
C27_StickyFallback == ~bench._use_browser /\ [][C27_Step]_vars

C27_Witness ==
  /\ bench.pc = "closed" /\ bench._use_browser /\ bench.kind = "spain-real-estate"
  /\ bench.fetches = 2 /\ bench.call.started_in_browser
  /\ bench.call.http_attempts = 0 /\ bench.call.browser_attempts = 1

\* the records the scrape holds: its return value once it has returned
ScrapedRecords ==
  IF sre.pc # "unused" THEN sre.all_properties
  ELSE IF ide.pc # "unused" THEN ide.properties ELSE <<>>

SreReturnedEnrichedData ==
  /\ sre.pc = "done" /\ sre.enrich /\ Len(sre.all_properties) > 0
  /\ sre.all_properties[1].latitude # None
  /\ ~sre.all_properties[1].enriched

IsPrefix(a, b) == Len(a) <= Len(b) /\ SubSeq(b, 1, Len(a)) = a
\* the identifier scrape() reads from a list item
ItemSid(item) == IF "source_id" \in DOMAIN item THEN item.source_id[1] ELSE ""

C29_Step ==
  sre.pc \in {"while", "items"} =>
    /\ IsPrefix(sre.all_properties, sre'.all_properties)
    /\ sre.seen_ids \subseteq sre'.seen_ids
    /\ sre'.failures > sre.failures =>
         /\ sre.tabs # <<>> /\ sre'.tabs = Tail(sre.tabs)
         /\ sre'.pc = "while" /\ sre'.page = 1 /\ sre'.total_pages = sre.max_pages
         /\ sre'.all_properties = sre.all_properties
         /\ sre'.seen_ids = sre.seen_ids
    /\ sre'.pc = "done" => sre.tabs = <<>>
    /\ (sre.pc = "items" /\ sre.items # <<>> /\ ItemSid(Head(sre.items)) \in sre.seen_ids) =>
         sre'.all_properties = sre.all_properties

\* C29: in the spain-real-estate scrape a FetchError on a list page ends the
\* current tab only: the scrape goes on with the next tab at its page 1, it
\* returns only when no tab is left, the records and the seen identifiers
\* collected so far are kept, and an item whose identifier was seen, in any
\* tab, adds no record.
C29_ListErrorEndsTab == [][C29_Step]_vars

C29_Witness ==
  /\ sre.pc = "done" /\ sre.failures = 1 /\ sre.max_pages > 1
  /\ Len(sre.all_properties) = 2
  /\ sre.all_properties[1].sub_category = Some("house") /\ sre.all_properties[1].source_id = "1"
  /\ sre.all_properties[2].sub_category = Some("plot") /\ sre.all_properties[2].source_id = "3"
  /\ sre.firsts["1"].tab = "villa"

\* a later tab lists an identifier of an earlier tab and adds no record for it
SeenInEarlierTab ==
  /\ sre.pc = "items" /\ Len(sre.tabs) = 1 /\ sre.items # <<>>
  /\ ItemSid(Head(sre.items)) \in sre.seen_ids
  /\ sre.firsts[ItemSid(Head(sre.items))].tab = "villa"

\* the HTML fallback is running or has run
InFallback == ide.fallbacks > 0 \/ ide.pc \in {"for", "dedupe", "details"}

\* C30: the Idealista scrape opens the warm-up page before any listing fetch
\* and calls the AJAX endpoint once (a scrape that returns has called it
\* exactly once; an unknown listing type raises after the warm-up, before any
\* fetch); the HTML fallback is entered at most once and only after an AJAX
\* call that raised or returned no ads with listing type sale or rent; for
\* new-building those cases return an empty list; the fallback fetches the
\* detail page of every de-duplicated identifier, whatever enrich is.
C30_IdealistaSequence ==
  ide.pc # "unused" =>
    /\ ide.pc # "warmup" <=> ide.warmed
    /\ (ide.ajax_calls > 0 \/ ide.fetched > 0 \/ ide.detailed # <<>>) => ide.warmed
    /\ ide.ajax_calls <= 1 /\ ide.fallbacks <= 1
    /\ ide.pc \in {"for", "dedupe", "details", "enrich", "done"} => ide.ajax_calls = 1
    /\ ide.pc = "error" =>
         ide.listing_type \notin {"sale", "rent", "new-building"} /\ ide.ajax_calls = 0
    /\ InFallback =>
         /\ ide.fallbacks = 1 /\ ide.ajax \in {"raised", "empty"}
         /\ ide.listing_type \in {"sale", "rent"}
    /\ (ide.ajax \in {"raised", "empty"} /\ ide.listing_type \in {"sale", "rent"}) => InFallback
    /\ (ide.ajax \in {"raised", "empty"} /\ ide.listing_type = "new-building") =>
         ide.pc = "done" /\ ide.properties = <<>> /\ ide.fetched = 0 /\ ide.detailed = <<>>
    /\ (ide.pc = "done" /\ InFallback) => ide.detailed = Unique(ide.all_ids, <<>>)
    /\ ~InFallback => ide.fetched = 0 /\ ide.detailed = <<>>

C30_Witness ==
  /\ ide.pc = "done" /\ ide.listing_type = "sale" /\ ~ide.enrich
  /\ ide.ajax = "empty" /\ ide.fallbacks = 1 /\ ide.fetched = 2
  /\ ide.all_ids = <<"101", "101", "102">> /\ ide.detailed = <<"101", "102">>

\* new-building with a failed AJAX call returns the empty list at once
NewBuildingReturnsEmpty ==
  /\ ide.pc = "done" /\ ide.listing_type = "new-building" /\ ide.ajax = "raised"
  /\ ide.properties = <<>> /\ ide.fallbacks = 0
====
